---- MODULE Spec2Model ----
(***************************************************************************)
(* Verification model of the tactical-combat core: Unit state machine,     *)
(* Squad command layer, Projectile/Explosion objects and the fixed-step    *)
(* PhysicsEngine.                                                          *)
(*                                                                         *)
(* Numbers.  Lengths, speeds and unit-time quantities are fixed-point      *)
(* integers in tenths (1.5 world units = 15, 0.5 s = 5).  health and       *)
(* damage amounts are plain integers.  Python exceptions are recorded in   *)
(* the variable error; the assignments a handler made before the raise are *)
(* kept, the rest of the handler is skipped, and nothing runs afterwards.  *)
(***************************************************************************)
EXTENDS Integers, Sequences, FiniteSets, TLC

VARIABLES units, squads, error, call, ncalls,
          projectiles, explosions, debris, accumulated_time, pc, steps, elapsed,
          game, mission

\* the PhysicsEngine: its three object lists, its accumulator, whether an
\* update call is inside its while loop (pc), and two counters of the
\* model: fixed steps executed and the exact sum of the dt passed in.
\* Of a debris piece the list holds the remaining lifetime; its position,
\* velocity, rotation, size and bounces are not held.
engine == <<projectiles, explosions, debris, accumulated_time, pc, steps, elapsed>>

\* the GameState (its clock, flags and squad lists, the squads being ids of
\* the squad table) and the Mission
campaign == <<game, mission>>

vars == <<units, squads, error, call, ncalls, engine, campaign>>

(***************************************************************************)
(* Bounds of the model                                                     *)
(***************************************************************************)
MaxCalls == 3

(***************************************************************************)
(* Arithmetic helpers                                                      *)
(***************************************************************************)
None == "none"

Factions == {"player", "enemy"}

Abs(x) == IF x < 0 THEN -x ELSE x

Min(a, b) == IF a <= b THEN a ELSE b

Max(a, b) == IF a >= b THEN a ELSE b

\* division truncating toward zero (fixed-point rendering of float division)
TDiv(a, b) == IF a >= 0 THEN a \div b ELSE -((-a) \div b)

\* floor of the square root (np.sqrt on fixed-point operands), by bisection
\* on lo * lo <= n < hi * hi
RECURSIVE SqrtBetween(_, _, _)
SqrtBetween(n, lo, hi) ==
    IF hi - lo <= 1 THEN lo
    ELSE LET mid == (lo + hi) \div 2
         IN  IF mid * mid <= n THEN SqrtBetween(n, mid, hi)
             ELSE SqrtBetween(n, lo, mid)

Sqrt(n) == SqrtBetween(n, 0, Min(n, 46339) + 1)

Distance(p, q) == Sqrt((p[1] - q[1]) * (p[1] - q[1]) + (p[2] - q[2]) * (p[2] - q[2]))

ZeroVec == <<0, 0>>

(***************************************************************************)
(* Python floats of the physics clock.  accumulated_time, lifetimes and dt *)
(* are IEEE-754 doubles; a non-negative double is held exactly as the      *)
(* integer count of 2^-62 s it equals, in three limbs <<a, b, c>> =         *)
(* a * 2^48 + b * 2^24 + c.  FAdd and FSub round the exact result to 53     *)
(* significant bits, ties to even, as the hardware does.                    *)
(***************************************************************************)
Limb == 16777216

RECURSIVE Pow2(_)
Pow2(k) == IF k = 0 THEN 1 ELSE 2 * Pow2(k - 1)

RECURSIVE BitLen(_)
BitLen(n) == IF n = 0 THEN 0 ELSE 1 + BitLen(n \div 2)

\* carry propagation (limbs may come in as 0 .. 2^31 - 1)
Carry(a, b, c) ==
    LET b1 == b + c \div Limb
    IN  <<a + b1 \div Limb, b1 % Limb, c % Limb>>

ExactAdd(x, y) == Carry(x[1] + y[1], x[2] + y[2], x[3] + y[3])

\* x - y for x >= y
ExactSub(x, y) ==
    LET c == x[3] - y[3]
        b == x[2] - y[2] - (IF c < 0 THEN 1 ELSE 0)
        a == x[1] - y[1] - (IF b < 0 THEN 1 ELSE 0)
    IN  <<a, IF b < 0 THEN b + Limb ELSE b, IF c < 0 THEN c + Limb ELSE c>>

\* n * x for a natural n, 127 at a time so that a limb product fits 32 bits
RECURSIVE ExactTimes(_, _)
ExactTimes(n, x) ==
    IF n > 127 THEN ExactAdd(ExactTimes(127, x), ExactTimes(n - 127, x))
    ELSE LET c == n * x[3]
             b == n * x[2] + c \div Limb
         IN  <<n * x[1] + b \div Limb, b % Limb, c % Limb>>

FLess(x, y) ==
    \/ x[1] < y[1]
    \/ x[1] = y[1] /\ x[2] < y[2]
    \/ x[1] = y[1] /\ x[2] = y[2] /\ x[3] < y[3]

FGeq(x, y) == ~FLess(x, y)

BitLen3(x) ==
    IF x[1] > 0 THEN 48 + BitLen(x[1])
    ELSE IF x[2] > 0 THEN 24 + BitLen(x[2])
    ELSE BitLen(x[3])

\* round to 53 significant bits, ties to even (at most 23 bits are dropped)
RoundDouble(x) ==
    LET k == BitLen3(x) - 53
    IN  IF k <= 0 THEN x
        ELSE LET ulp == Pow2(k)
                 r == x[3] % ulp
                 kept == x[3] - r
                 odd == (x[3] \div ulp) % 2 = 1
                 up == r * 2 > ulp \/ (r * 2 = ulp /\ odd)
             IN  Carry(x[1], x[2], IF up THEN kept + ulp ELSE kept)

FAdd(x, y) == RoundDouble(ExactAdd(x, y))

FSub(x, y) == RoundDouble(ExactSub(x, y))

FZero == <<0, 0, 0>>

(***************************************************************************)
(* Unit.__init__ and the subclass constructors                             *)
(***************************************************************************)
Unit(type_name, position, faction) ==
    [ type                 |-> type_name,
      position             |-> position,
      faction              |-> faction,
      squad                |-> None,
      formation_position   |-> <<>>,
      health               |-> 100,
      max_health           |-> 100,
      state                |-> "idle",
      target               |-> None,
      path                 |-> <<>>,
      speed                |-> 50,
      attack_range         |-> 10,
      attack_speed         |-> 10,
      damage               |-> 10,
      is_ranged            |-> FALSE,
      knockback_power      |-> 0,
      knockback_resistance |-> 0,
      knockback_recovery   |-> 20,
      knockback_timer      |-> 0,
      knockback_velocity   |-> ZeroVec,
      last_attacker        |-> None,
      has_attack_timer     |-> FALSE,
      attack_timer         |-> 0 ]

Dimensioneer(position, faction) ==
    [ Unit("dimensioneer", position, faction) EXCEPT
        !.max_health = 150, !.health = 150, !.speed = 45,
        !.damage = 25, !.attack_range = 20, !.attack_speed = 12 ]

PortalArcher(position, faction) ==
    [ Unit("portal_archer", position, faction) EXCEPT
        !.max_health = 90, !.health = 90, !.speed = 50,
        !.damage = 15, !.attack_range = 180, !.attack_speed = 8,
        !.is_ranged = TRUE, !.knockback_power = 0,
        !.knockback_resistance = 1, !.knockback_recovery = 15 ]

TechGrenadier(position, faction) ==
    [ Unit("tech_grenadier", position, faction) EXCEPT
        !.max_health = 120, !.health = 120, !.speed = 38,
        !.damage = 8, !.attack_range = 120, !.attack_speed = 5 ]

Gromflomite(position, faction) ==
    [ Unit("gromflomite", position, faction) EXCEPT
        !.max_health = 100, !.health = 100, !.speed = 40,
        !.damage = 12, !.attack_range = 150, !.attack_speed = 10 ]

(***************************************************************************)
(* Unit: queries                                                           *)
(***************************************************************************)
is_alive(self) == self.state # "dead"

is_melee_unit(self) == ~self.is_ranged /\ self.attack_range <= 20

\* liveness alone, whatever the faction
is_valid_target_of_any_faction(self, target_unit) ==
    target_unit.state # "dead"

is_valid_target(self, target_unit) ==
    target_unit.state # "dead" /\ target_unit.faction # self.faction

\* result of a handler: the unit table it leaves and the exception it raised
Ok(us) == [units |-> us, error |-> None]

Raise(us, exc) == [units |-> us, error |-> exc]

(***************************************************************************)
(* Unit.take_damage and Dimensioneer.take_damage                           *)
(***************************************************************************)
\* directions np.random may pick when attacker and victim are stacked,
\* as vectors of length 10 (= 1.0)
RandomDirs == {<<10, 0>>, <<0, 10>>, <<-10, 0>>, <<0, -10>>, <<6, 8>>}

\* the strength without its floor at zero
knockback_strength_unclamped(attacker, self) ==
    attacker.knockback_power - self.knockback_resistance

knockback_strength(attacker, self) ==
    Max(0, attacker.knockback_power - self.knockback_resistance)

knockback_distance(attacker, self) ==
    (attacker.attack_range * 12 * knockback_strength(attacker, self)) \div 100

\* normalize(victim - attacker) * knockback_distance
knockback_impulse(attacker, self, dir) ==
    LET dx  == self.position[1] - attacker.position[1]
        dy  == self.position[2] - attacker.position[2]
        kd  == knockback_distance(attacker, self)
        mag == Sqrt(dx * dx + dy * dy)
    IN  IF dx = 0 /\ dy = 0
        THEN <<TDiv(dir[1] * kd, 10), TDiv(dir[2] * kd, 10)>>
        ELSE <<TDiv(dx * kd, mag), TDiv(dy * kd, mag)>>

\* lines 268-273: record the attacker, clamp and die
take_damage_finish(self, attacker) ==
    LET s == [self EXCEPT !.last_attacker = attacker]
    IN  IF s.health <= 0 THEN [s EXCEPT !.health = 0, !.state = "dead"] ELSE s

\* attacker is None, a unit id or a faction string (a str has no
\* is_melee_unit: AttributeError after health was already decremented)
Unit_take_damage(us, v, amount, attacker, dir) ==
    LET self == [us[v] EXCEPT !.health = @ - amount]
    IN  IF attacker = None
        THEN Ok([us EXCEPT ![v] = take_damage_finish(self, attacker)])
        ELSE IF attacker \notin DOMAIN us
        THEN Raise([us EXCEPT ![v] = self], "AttributeError")
        ELSE IF is_melee_unit(us[attacker])
        THEN LET k == [self EXCEPT
                         !.knockback_velocity = knockback_impulse(us[attacker], self, dir),
                         !.knockback_timer = self.knockback_recovery,
                         !.path = IF self.state # "dead" THEN <<>> ELSE @]
             IN  Ok([us EXCEPT ![v] = take_damage_finish(k, attacker)])
        ELSE Ok([us EXCEPT ![v] = take_damage_finish(self, attacker)])

\* Dimensioneer.take_damage(self, damage): one parameter only, so a call
\* that passes an attacker argument raises TypeError before the body runs
Dimensioneer_take_damage(us, v, amount, nargs, dodge, dir) ==
    IF nargs = 2 THEN Raise(us, "TypeError")
    ELSE IF dodge THEN Ok(us)
    ELSE Unit_take_damage(us, v, amount, None, dir)

\* dynamic dispatch of unit.take_damage(amount[, attacker])
take_damage(us, v, amount, attacker, nargs, dodge, dir) ==
    IF us[v].type = "dimensioneer"
    THEN Dimensioneer_take_damage(us, v, amount, nargs, dodge, dir)
    ELSE Unit_take_damage(us, v, amount, IF nargs = 2 THEN attacker ELSE None, dir)

(***************************************************************************)
(* Unit: heal and the command methods                                      *)
(***************************************************************************)
heal(self, amount) ==
    [self EXCEPT !.health = Min(self.health + amount, self.max_health)]

set_destination(self, destination) ==
    [self EXCEPT !.path = <<destination>>, !.state = "moving"]

move_to(self, target_position) ==
    [self EXCEPT !.state = "moving", !.target = None, !.path = <<target_position>>]

set_target(self, target) == [self EXCEPT !.target = target]

set_attack_mode(self, attacking) ==
    IF attacking /\ self.target # None THEN [self EXCEPT !.state = "attacking"]
    ELSE IF ~attacking THEN [self EXCEPT !.state = "idle"]
    ELSE self

issue_move_command(self, target_position) == move_to(self, target_position)

\* target is a unit (has an id): the position branch is issue_move_command
issue_attack_command(us, u, target) ==
    LET s == set_attack_mode(set_target(us[u], target), TRUE)
    IN  IF Distance(us[target].position, s.position) > s.attack_range
        THEN [s EXCEPT !.state = "moving", !.path = <<us[target].position>>]
        ELSE s

(***************************************************************************)
(* Unit.update                                                             *)
(***************************************************************************)
\* a step of the full length speed*dt, however near the target is
step_of_full_length(self, target, dt) ==
    LET dx == target[1] - self.position[1]
        dy == target[2] - self.position[2]
        distance == Sqrt(dx * dx + dy * dy)
        move_distance == (self.speed * dt) \div 10
    IN  IF distance = 0 THEN self.position
        ELSE <<self.position[1] + TDiv(dx * move_distance, distance),
               self.position[2] + TDiv(dy * move_distance, distance)>>

\* one straight-line step of length min(speed*dt, distance) toward target
step_toward(self, target, dt) ==
    LET dx == target[1] - self.position[1]
        dy == target[2] - self.position[2]
        distance == Sqrt(dx * dx + dy * dy)
        move_distance == Min((self.speed * dt) \div 10, distance)
    IN  IF distance = 0 THEN self.position
        ELSE <<self.position[1] + TDiv(dx * move_distance, distance),
               self.position[2] + TDiv(dy * move_distance, distance)>>

_update_movement(self, dt) ==
    IF self.path = <<>> THEN [self EXCEPT !.state = "idle"]
    ELSE IF Distance(self.path[1], self.position) < 5
    THEN LET rest == Tail(self.path)
         IN  IF rest = <<>>
             THEN [self EXCEPT !.path = rest, !.state = "idle"]
             ELSE [self EXCEPT !.path = rest,
                               !.position = step_toward(self, rest[1], dt)]
    ELSE [self EXCEPT !.position = step_toward(self, self.path[1], dt)]

\* the target is held by reference (a unit id of the table) or is None
_update_attack(us, u, dt, dodge, dir) ==
    LET self == us[u]
    IN  IF self.target = None \/ ~is_valid_target(self, us[self.target])
        THEN Ok([us EXCEPT ![u] = [self EXCEPT !.state = "idle", !.target = None]])
        ELSE IF Distance(us[self.target].position, self.position) > self.attack_range
        THEN Ok([us EXCEPT ![u] = [self EXCEPT !.state = "moving",
                                     !.path = <<us[self.target].position>>]])
        ELSE IF ~self.has_attack_timer
        THEN Raise(us, "AttributeError")
        ELSE IF self.attack_timer + dt >= 100 \div self.attack_speed
        THEN take_damage([us EXCEPT ![u].attack_timer = 0],
                         self.target, self.damage, u, 2, dodge, dir)
        ELSE Ok([us EXCEPT ![u].attack_timer = @ + dt])

\* the state machine run without regard to a running knockback
Unit_update_through_knockback(us, u, dt, dodge, dir) ==
    IF us[u].state = "moving" /\ us[u].path # <<>>
    THEN Ok([us EXCEPT ![u] = _update_movement(us[u], dt)])
    ELSE IF us[u].state = "attacking"
    THEN _update_attack(us, u, dt, dodge, dir)
    ELSE Ok(us)

\* Dimensioneer.update only runs its ability cooldown before this
Unit_update(us, u, dt, dodge, dir) ==
    LET self == us[u]
    IN  IF self.knockback_timer > 0
        THEN LET moved == [self EXCEPT
                             !.position = <<@[1] + TDiv(self.knockback_velocity[1] * dt, 10),
                                            @[2] + TDiv(self.knockback_velocity[2] * dt, 10)>>,
                             !.knockback_timer = @ - dt]
             IN  IF moved.knockback_timer <= 0
                 THEN Ok([us EXCEPT ![u] = [moved EXCEPT
                            !.knockback_velocity = ZeroVec,
                            !.knockback_timer = 0,
                            !.state = IF moved.state = "idle" /\ moved.target # None
                                      THEN "attacking" ELSE @]])
                 ELSE Ok([us EXCEPT ![u] = moved])
        ELSE IF self.state = "moving" /\ self.path # <<>>
        THEN Ok([us EXCEPT ![u] = _update_movement(self, dt)])
        ELSE IF self.state = "attacking"
        THEN _update_attack(us, u, dt, dodge, dir)
        ELSE Ok(us)

(***************************************************************************)
(* Squad: construction and formations                                      *)
(***************************************************************************)
Squad(faction, position) ==
    [ faction            |-> faction,
      position           |-> position,
      units              |-> <<>>,
      formation          |-> "LINE",
      formation_spacing  |-> 300,
      formation_width    |-> 5,
      target_position    |-> <<>>,
      waypoints          |-> <<>> ]

\* travel direction target - position as the pair <<vector, length>>; the
\* unit vector is vector / length, and <<0, 1>> when the squad is at target
travel_direction(sq, target) ==
    LET dx == target[1] - sq.position[1]
        dy == target[2] - sq.position[2]
        length == Sqrt(dx * dx + dy * dy)
    IN  IF length > 0 THEN <<dx, dy, length>> ELSE <<0, 1, 1>>

\* target + rel_x * perp + rel_y * direction, perp = (-direction.y, direction.x)
world_position(target, d, rel_x, rel_y) ==
    <<target[1] + TDiv(rel_y * d[1] - rel_x * d[2], d[3]),
      target[2] + TDiv(rel_x * d[1] + rel_y * d[2], d[3])>>

\* formation position of the i-th member (i counts from 0) of n
_form_line(sq, target, i, n) ==
    LET units_per_row == IF n <= sq.formation_width THEN n ELSE sq.formation_width
        rows == IF n <= sq.formation_width THEN 1
                ELSE (n + units_per_row - 1) \div units_per_row
        total_width == (units_per_row - 1) * sq.formation_spacing
        total_height == (rows - 1) * sq.formation_spacing
        row == i \div units_per_row
        col == i % units_per_row
        units_in_this_row == Min(units_per_row, n - row * units_per_row)
        row_width == (units_in_this_row - 1) * sq.formation_spacing
        offset == IF units_per_row > units_in_this_row
                  THEN (total_width - row_width) \div 2 ELSE 0
        rel_x == (col * sq.formation_spacing - row_width \div 2) + offset
        rel_y == row * sq.formation_spacing - total_height \div 2
    IN  world_position(target, travel_direction(sq, target), rel_x, rel_y)

\* the wedge with every follower on the same side
_form_wedge_one_sided(sq, target, i, n) ==
    LET row == (i - 1) \div 2 + 1
        rel == IF i = 0 THEN 0 ELSE (row * sq.formation_spacing * 8) \div 10
    IN  world_position(target, travel_direction(sq, target), rel, rel)

_form_wedge(sq, target, i, n) ==
    LET side == IF i % 2 = 1 THEN 1 ELSE -1
        row == (i - 1) \div 2 + 1
        rel_x == IF i = 0 THEN 0 ELSE TDiv(side * row * sq.formation_spacing * 8, 10)
        rel_y == IF i = 0 THEN 0 ELSE (row * sq.formation_spacing * 8) \div 10
    IN  world_position(target, travel_direction(sq, target), rel_x, rel_y)

_form_column(sq, target, i, n) ==
    LET total_length == (n \div 2) * sq.formation_spacing
                        + (IF n % 2 > 0 THEN sq.formation_spacing ELSE 0)
        col == i \div 2
        row == i % 2
        rel_x == TDiv((2 * row - 1) * sq.formation_spacing, 2)
        rel_y == col * sq.formation_spacing - total_length \div 2
    IN  world_position(target, travel_direction(sq, target), rel_x, rel_y)

\* <<math.cos, math.sin>> of the angle 2 * pi * (i / n), in thousandths, for
\* the member counts 1 .. 8; row n lists i = 0 .. n - 1
circle_points ==
    << <<<<1000, 0>>>>,
       <<<<1000, 0>>, <<-1000, 0>>>>,
       <<<<1000, 0>>, <<-500, 866>>, <<-500, -866>>>>,
       <<<<1000, 0>>, <<0, 1000>>, <<-1000, 0>>, <<0, -1000>>>>,
       <<<<1000, 0>>, <<309, 951>>, <<-809, 588>>, <<-809, -588>>, <<309, -951>>>>,
       <<<<1000, 0>>, <<500, 866>>, <<-500, 866>>, <<-1000, 0>>, <<-500, -866>>, <<500, -866>>>>,
       <<<<1000, 0>>, <<623, 782>>, <<-223, 975>>, <<-901, 434>>, <<-901, -434>>, <<-223, -975>>, <<623, -782>>>>,
       <<<<1000, 0>>, <<707, 707>>, <<0, 1000>>, <<-707, 707>>, <<-1000, 0>>, <<-707, -707>>, <<0, -1000>>, <<707, -707>>>> >>

\* radius 2 * formation_spacing around the target, no rotation
_form_circle(sq, target, i, n) ==
    <<target[1] + TDiv(2 * sq.formation_spacing * circle_points[n][i + 1][1], 1000),
      target[2] + TDiv(2 * sq.formation_spacing * circle_points[n][i + 1][2], 1000)>>

\* assigns every member its formation_position; returns the unit table
_update_formation(us, sq) ==
    LET n == Len(sq.units)
        target == IF sq.target_position # <<>> THEN sq.target_position ELSE sq.position
        place(i) == IF sq.formation = "LINE" THEN _form_line(sq, target, i, n)
                    ELSE IF sq.formation = "WEDGE" THEN _form_wedge(sq, target, i, n)
                    ELSE IF sq.formation = "CIRCLE" THEN _form_circle(sq, target, i, n)
                    ELSE _form_column(sq, target, i, n)
        \* a unit listed twice keeps the position of its last listing
        last(u) == CHOOSE i \in 1..n :
                      sq.units[i] = u /\ \A j \in (i + 1)..n : sq.units[j] # u
    IN  [u \in DOMAIN us |->
            IF \E i \in 1..n : sq.units[i] = u
            THEN [us[u] EXCEPT !.formation_position = place(last(u) - 1)]
            ELSE us[u]]

\* radius spacing * sqrt(n) * 0.5; member i lies at radius * sqrt(random())
\* in the direction 2 * pi * (i / n); roll is the random number in thousandths
_form_scattered(sq, target, i, n, roll) ==
    LET radius == (sq.formation_spacing * Sqrt(n * 10000)) \div 200
        distance == (radius * Sqrt(roll * 1000)) \div 1000
    IN  <<target[1] + TDiv(distance * circle_points[n][i + 1][1], 1000),
          target[2] + TDiv(distance * circle_points[n][i + 1][2], 1000)>>

\* _update_formation with the random numbers the scattered formation draws,
\* rolls[i + 1] for member i
_update_formation_rolled(us, sq, rolls) ==
    IF sq.units # <<>> /\ sq.formation = "SCATTERED"
    THEN [u \in DOMAIN us |->
            IF \E i \in 1..Len(sq.units) : sq.units[i] = u
            THEN [us[u] EXCEPT !.formation_position =
                     _form_scattered(sq,
                        IF sq.target_position # <<>> THEN sq.target_position ELSE sq.position,
                        (CHOOSE i \in 1..Len(sq.units) :
                            sq.units[i] = u /\ \A j \in (i + 1)..Len(sq.units) : sq.units[j] # u) - 1,
                        Len(sq.units),
                        rolls[CHOOSE i \in 1..Len(sq.units) :
                            sq.units[i] = u /\ \A j \in (i + 1)..Len(sq.units) : sq.units[j] # u])]
            ELSE us[u]]
    ELSE _update_formation(us, sq)

(***************************************************************************)
(* Squad: membership and commands.  A handler takes the unit table us and  *)
(* the squad table sqs and returns both with the exception it raised.      *)
(***************************************************************************)
SOk(us, sqs) == [units |-> us, squads |-> sqs, error |-> None]

WithSquads(r, sqs) == [units |-> r.units, squads |-> sqs, error |-> r.error]

Members(sq) == { sq.units[i] : i \in 1..Len(sq.units) }

RemoveFirst(seq, x) ==
    LET i == CHOOSE k \in 1..Len(seq) : seq[k] = x /\ \A j \in 1..(k - 1) : seq[j] # x
    IN  SubSeq(seq, 1, i - 1) \o SubSeq(seq, i + 1, Len(seq))

add_unit(us, sqs, s, u) ==
    LET sq == [sqs[s] EXCEPT !.units = Append(@, u)]
    IN  SOk(_update_formation([us EXCEPT ![u].squad = s], sq),
            [sqs EXCEPT ![s] = sq])

\* add_unit on a squad whose formation may be the scattered one
add_unit_rolled(us, sqs, s, u, rolls) ==
    SOk(_update_formation_rolled([us EXCEPT ![u].squad = s],
                                 [sqs[s] EXCEPT !.units = Append(@, u)], rolls),
        [sqs EXCEPT ![s].units = Append(@, u)])

remove_unit(us, sqs, s, u) ==
    IF u \in Members(sqs[s])
    THEN LET sq == [sqs[s] EXCEPT !.units = RemoveFirst(@, u)]
         IN  SOk(_update_formation([us EXCEPT ![u].squad = None], sq),
                 [sqs EXCEPT ![s] = sq])
    ELSE SOk(us, sqs)

\* the target recorded and the formation recomputed, but no member ordered
Squad_move_to_no_orders(us, sqs, s, target_position) ==
    SOk(_update_formation(us, [sqs[s] EXCEPT !.target_position = target_position,
                                            !.waypoints = <<target_position>>]),
        [sqs EXCEPT ![s].target_position = target_position,
                    ![s].waypoints = <<target_position>>])

\* members in list order receive unit.move_to(formation_position)
Squad_move_to(us, sqs, s, target_position) ==
    LET sq == [sqs[s] EXCEPT !.target_position = target_position,
                             !.waypoints = <<target_position>>]
        formed == _update_formation(us, sq)
    IN  SOk([u \in DOMAIN us |->
                IF u \in Members(sq) /\ formed[u].formation_position # <<>>
                THEN move_to(formed[u], formed[u].formation_position)
                ELSE formed[u]],
            [sqs EXCEPT ![s] = sq])

set_formation(us, sqs, s, formation_type) ==
    LET sq == [sqs[s] EXCEPT !.formation = formation_type]
        formed == _update_formation(us, sq)
        changed == [sqs EXCEPT ![s] = sq]
    IN  IF sq.target_position # <<>>
        THEN Squad_move_to(formed, changed, s, sq.target_position)
        ELSE SOk(formed, changed)

attack_target(us, sqs, s, target_position) ==
    LET moved == Squad_move_to(us, sqs, s, target_position)
    IN  SOk([u \in DOMAIN us |->
                IF u \in Members(sqs[s]) THEN set_attack_mode(moved.units[u], TRUE)
                ELSE moved.units[u]],
            moved.squads)

attack_unit(us, sqs, s, target_unit) ==
    SOk([u \in DOMAIN us |->
            IF u \in Members(sqs[s])
            THEN set_attack_mode(set_target(us[u], target_unit), TRUE)
            ELSE us[u]],
        sqs)

(***************************************************************************)
(* Squad.update                                                            *)
(***************************************************************************)
RECURSIVE SumCoord(_, _, _)
SumCoord(us, seq, k) ==
    IF seq = <<>> THEN 0 ELSE us[Head(seq)].position[k] + SumCoord(us, Tail(seq), k)

\* unit.update for each member in list order; the first exception aborts
RECURSIVE update_members(_, _, _, _, _)
update_members(us, seq, dt, dodge, dir) ==
    IF seq = <<>> THEN Ok(us)
    ELSE LET r == Unit_update(us, Head(seq), dt, dodge, dir)
         IN  IF r.error # None THEN r
             ELSE update_members(r.units, Tail(seq), dt, dodge, dir)

\* the list as it stands, dead members included
live_members_unpruned(us, sq) == sq.units

\* self.units = [unit for unit in self.units if unit.is_alive()]
live_members(us, sq) ==
    LET alive(u) == is_alive(us[u])
    IN  SelectSeq(sq.units, alive)

Squad_update(us, sqs, s, delta_time, dodge, dir) ==
    LET survivors == live_members(us, sqs[s])
        n == Len(survivors)
        pruned == [sqs[s] EXCEPT
                     !.units = survivors,
                     !.position = IF n > 0
                                  THEN <<TDiv(SumCoord(us, survivors, 1), n),
                                         TDiv(SumCoord(us, survivors, 2), n)>>
                                  ELSE @]
        r == update_members(us, survivors, delta_time, dodge, dir)
        sqs1 == [sqs EXCEPT ![s] = pruned]
    IN  IF r.error # None
        THEN WithSquads(r, sqs1)
        ELSE IF pruned.waypoints # <<>> /\ n > 0
                /\ Distance(pruned.position, pruned.waypoints[1]) < 500
        THEN LET popped == [pruned EXCEPT !.waypoints = Tail(@)]
                 sqs2 == [sqs EXCEPT ![s] = popped]
             IN  IF popped.waypoints # <<>>
                 THEN Squad_move_to(r.units, sqs2, s, popped.waypoints[1])
                 ELSE SOk(_update_formation(r.units, popped), sqs2)
        ELSE SOk(r.units, sqs1)

(***************************************************************************)
(* Projectile and Explosion.  Lengths of the physics objects are counted   *)
(* in 1/600 of a world unit, so that speed * physics_step is the integer   *)
(* 10 * speed; unit positions (tenths) are converted on the way in.        *)
(* Directions are unit vectors scaled by 1000.  Times are doubles.         *)
(***************************************************************************)
physics_step == <<273, 1118481, 1118480>>      \* the double nearest 1/60

Seconds(n) == <<16384 * n, 0, 0>>

HalfSecond == <<8192, 0, 0>>

PhysPos(unit) == <<unit.position[1] * 60, unit.position[2] * 60>>

\* np.linalg.norm of a difference of positions; long vectors are measured on
\* a coarser grid so that the squares stay inside 32 bits
Coarse(dx, dy, dz) == (Max(Abs(dx), Max(Abs(dy), Abs(dz))) \div 20000) + 1

Norm(dx, dy, dz) ==
    LET k == Coarse(dx, dy, dz)
        x == TDiv(dx, k)
        y == TDiv(dy, k)
        z == TDiv(dz, k)
    IN  k * Sqrt(x * x + y * y + z * z)

\* (to - from) / |to - from| * 1000, or zero when the points coincide
direction_to(from, to) ==
    LET k == Coarse(to[1] - from[1], to[2] - from[2], to[3] - from[3])
        dx == TDiv(to[1] - from[1], k)
        dy == TDiv(to[2] - from[2], k)
        dz == TDiv(to[3] - from[3], k)
        distance == Sqrt(dx * dx + dy * dy + dz * dz)
    IN  IF to = from THEN <<0, 0, 0>>
        ELSE <<TDiv(dx * 1000, distance), TDiv(dy * 1000, distance),
               TDiv(dz * 1000, distance)>>

\* Projectile.__init__: target_position wins over target_unit
Projectile(us, position, target_position, target_unit, speed, damage, owner, lifetime, projectile_type) ==
    [ position        |-> position,
      target_unit     |-> target_unit,
      speed           |-> speed,
      damage          |-> damage,
      owner           |-> owner,
      max_lifetime    |-> lifetime,
      lifetime        |-> FZero,
      projectile_type |-> projectile_type,
      active          |-> TRUE,
      direction       |-> IF target_position # <<>>
                          THEN direction_to(position, target_position)
                          ELSE IF target_unit # None
                          THEN direction_to(<<position[1], position[2], 0>>,
                                            PhysPos(us[target_unit]) \o <<0>>)
                          ELSE <<0, 0, 0>>,
      z_velocity      |-> 20000,
      \* bookkeeping of the model: the units whose health this projectile lowered
      hits            |-> <<>> ]

has_gravity(proj) == proj.projectile_type = "grenade"

explodes(proj) == proj.projectile_type = "grenade"

explosion_radius == 9000

Explosion(us, position, radius, damage, owner) ==
    [ position       |-> position,
      radius         |-> radius,
      damage         |-> damage,
      owner          |-> owner,
      max_lifetime   |-> HalfSecond,
      lifetime       |-> FZero,
      damage_falloff |-> TRUE,
      active         |-> TRUE,
      damaged_units  |-> {},
      \* bookkeeping of the model: take_damage calls made on each unit
      applied        |-> [u \in DOMAIN us |-> 0] ]

\* GameState.get_all_player_units / get_all_enemy_units: the units of the
\* squads of one faction, as a list
RECURSIVE SetToSeq(_)
SetToSeq(S) ==
    IF S = {} THEN <<>>
    ELSE LET x == CHOOSE y \in S : TRUE IN <<x>> \o SetToSeq(S \ {x})

get_all_units(us, faction) ==
    SetToSeq({u \in DOMAIN us : us[u].faction = faction})

\* the faction of an owner that is a unit, a faction string or None
owner_faction(us, owner) ==
    IF owner = None THEN "neutral"
    ELSE IF owner \in DOMAIN us THEN us[owner].faction
    ELSE owner

(***************************************************************************)
(* Projectile.update for one fixed step.  Result: the projectile, the unit *)
(* table, the explosion effects to spawn and the exception raised.         *)
(***************************************************************************)
PResult(proj, us, effects, err) ==
    [proj |-> proj, units |-> us, effects |-> effects, error |-> err]

\* the first live unit of the list inside its collision radius (1.0), or None
RECURSIVE first_hit(_, _, _)
first_hit(us, seq, proj) ==
    IF seq = <<>> THEN None
    ELSE IF is_alive(us[Head(seq)])
            /\ Norm(PhysPos(us[Head(seq)])[1] - proj.position[1],
                    PhysPos(us[Head(seq)])[2] - proj.position[2], 0) < 600
    THEN Head(seq)
    ELSE first_hit(us, Tail(seq), proj)

\* friendly fire is off: a player projectile meets enemies and vice versa
units_to_check(us, faction) ==
    IF faction = "player" THEN get_all_units(us, "enemy")
    ELSE IF faction = "enemy" THEN get_all_units(us, "player")
    ELSE <<>>

\* the projectile with its bookkeeping of the unit it has just lowered the
\* health of; health is the health of the unit before the call
struck(proj, r, hit, health) ==
    IF r.units[hit].health < health THEN [proj EXCEPT !.hits = Append(@, hit)] ELSE proj

\* after unit.take_damage(self.damage, self.owner) has returned or raised
hit_effects(proj, r, hit, health) ==
    IF r.error # None THEN PResult(struck(proj, r, hit, health), r.units, <<>>, r.error)
    ELSE PResult([struck(proj, r, hit, health) EXCEPT !.active = FALSE], r.units,
                 IF explodes(proj)
                 THEN << [position |-> proj.position,
                          radius |-> explosion_radius,
                          damage |-> proj.damage,
                          owner |-> proj.owner] >>
                 ELSE <<>>,
                 None)

collide(us, proj, hit, dodge, dir) ==
    IF hit = None THEN PResult(proj, us, <<>>, None)
    ELSE hit_effects(proj, take_damage(us, hit, proj.damage, proj.owner, 2, dodge, dir),
                     hit, us[hit].health)

_check_collisions(us, proj, dodge, dir) ==
    collide(us, proj,
            first_hit(us, units_to_check(us, owner_faction(us, proj.owner)), proj),
            dodge, dir)

\* 0.8 * direction + 0.2 * to, renormalized when its length is positive
blend(direction, to) ==
    LET bx == TDiv(8 * direction[1] + 2 * to[1], 10)
        by == TDiv(8 * direction[2] + 2 * to[2], 10)
        bz == TDiv(8 * direction[3] + 2 * to[3], 10)
        dir_length == Sqrt(bx * bx + by * by + bz * bz)
    IN  IF to = <<0, 0, 0>> THEN direction
        ELSE IF dir_length > 0
        THEN <<TDiv(bx * 1000, dir_length), TDiv(by * 1000, dir_length),
               TDiv(bz * 1000, dir_length)>>
        ELSE <<bx, by, bz>>

\* homing: steer towards the unit vector to the target
homing_direction(us, proj) ==
    blend(proj.direction,
          direction_to(<<proj.position[1], proj.position[2], 0>>,
                       PhysPos(us[proj.target_unit]) \o <<0>>))

\* position += direction * speed * dt, then the collision check
advance(us, proj, dodge, dir) ==
    _check_collisions(us,
        [proj EXCEPT !.position =
            <<@[1] + TDiv(proj.direction[1] * proj.speed, 100),
              @[2] + TDiv(proj.direction[2] * proj.speed, 100),
              @[3] + TDiv(proj.direction[3] * proj.speed, 100)>>],
        dodge, dir)

\* gravity; z_velocity is in 1/100 of a length unit per step and loses
\* 9.8 / 60 per step; a grenade reaching the ground explodes there
fall(us, proj, dodge, dir) ==
    LET zv == proj.z_velocity - 163
        new_z == proj.position[3] + TDiv(zv, 100)
    IN  IF ~has_gravity(proj) THEN advance(us, proj, dodge, dir)
        ELSE IF new_z <= 0
        THEN PResult([proj EXCEPT !.z_velocity = zv, !.active = FALSE], us,
                     << [position |-> <<proj.position[1], proj.position[2], 0>>,
                         radius |-> explosion_radius,
                         damage |-> proj.damage,
                         owner |-> proj.owner] >>,
                     None)
        ELSE advance(us, [proj EXCEPT !.z_velocity = zv, !.position[3] = new_z],
                     dodge, dir)

\* no expiry: the projectile flies on whatever its lifetime
fly_past_lifetime(us, proj, dodge, dir) ==
    fall(us,
         IF proj.target_unit # None /\ is_alive(us[proj.target_unit])
         THEN [proj EXCEPT !.direction = homing_direction(us, proj)]
         ELSE proj,
         dodge, dir)

\* after lifetime += dt: expiry, else homing, gravity, movement, collisions
fly(us, proj, dodge, dir) ==
    IF FGeq(proj.lifetime, proj.max_lifetime)
    THEN PResult([proj EXCEPT !.active = FALSE], us, <<>>, None)
    ELSE fall(us,
              IF proj.target_unit # None /\ is_alive(us[proj.target_unit])
              THEN [proj EXCEPT !.direction = homing_direction(us, proj)]
              ELSE proj,
              dodge, dir)

Projectile_update(us, proj, dodge, dir) ==
    fly(us, [proj EXCEPT !.lifetime = FAdd(@, physics_step)], dodge, dir)

(***************************************************************************)
(* Explosion.update and Explosion._apply_damage for one fixed step         *)
(***************************************************************************)
EResult(ex, us, err) == [ex |-> ex, units |-> us, error |-> err]

\* distance <= self.radius
in_radius(ex, dx, dy) ==
    /\ Abs(dx) <= ex.radius
    /\ Abs(dy) <= ex.radius
    /\ dx * dx + dy * dy <= ex.radius * ex.radius

\* linear falloff from the centre
actual_damage(ex, distance) ==
    IF ex.damage_falloff
    THEN TDiv(ex.damage * (ex.radius - distance), ex.radius)
    ELSE ex.damage

RECURSIVE apply_to(_, _, _, _, _)
\* after unit.take_damage(actual_damage, self.owner) has returned or raised
damaged(r, ex, u, rest, dodge, dir) ==
    IF r.error # None THEN EResult(ex, r.units, r.error)
    ELSE apply_to(r.units, [ex EXCEPT !.damaged_units = @ \cup {u}], rest, dodge, dir)

blast(us, ex, u, dx, dy, rest, dodge, dir) ==
    IF ~is_alive(us[u]) \/ u \in ex.damaged_units \/ ~in_radius(ex, dx, dy)
    THEN apply_to(us, ex, rest, dodge, dir)
    ELSE damaged(take_damage(us, u, actual_damage(ex, Norm(dx, dy, 0)), ex.owner, 2,
                             dodge, dir),
                 [ex EXCEPT !.applied[u] = @ + 1], u, rest, dodge, dir)

apply_to(us, ex, seq, dodge, dir) ==
    IF seq = <<>> THEN EResult(ex, us, None)
    ELSE blast(us, ex, Head(seq),
               PhysPos(us[Head(seq)])[1] - ex.position[1],
               PhysPos(us[Head(seq)])[2] - ex.position[2],
               Tail(seq), dodge, dir)

\* the units an explosion of an owner's faction looks at
blast_units(us, faction) ==
    IF faction = "player" THEN get_all_units(us, "enemy")
    ELSE IF faction = "enemy" THEN get_all_units(us, "player")
    ELSE get_all_units(us, "player") \o get_all_units(us, "enemy")

\* self.owner.faction: a faction string as owner has no attribute faction
_apply_damage(us, ex, dodge, dir) ==
    IF ex.owner # None /\ ex.owner \notin DOMAIN us
    THEN EResult(ex, us, "AttributeError")
    ELSE apply_to(us, ex, blast_units(us, owner_faction(us, ex.owner)), dodge, dir)

\* after lifetime += dt; "if self.lifetime < dt" is evaluated on the new value
burn(us, ex, dodge, dir) ==
    IF FGeq(ex.lifetime, ex.max_lifetime)
    THEN EResult([ex EXCEPT !.active = FALSE], us, None)
    ELSE IF FLess(ex.lifetime, physics_step)
    THEN _apply_damage(us, ex, dodge, dir)
    ELSE EResult(ex, us, None)

Explosion_update(us, ex, dodge, dir) ==
    burn(us, [ex EXCEPT !.lifetime = FAdd(@, physics_step)], dodge, dir)

(***************************************************************************)
(* PhysicsEngine                                                           *)
(***************************************************************************)
\* GameState.__init__ in mission mode; times are in tenths of a second
GameState ==
    [ game_time          |-> 0,
      mission_objectives |-> <<>>,
      time_limit         |-> 0,
      mission_complete   |-> FALSE,
      mission_failed     |-> FALSE,
      player_squads      |-> <<>>,
      enemy_squads       |-> <<>> ]

\* PhysicsEngine.__init__, beside a fresh GameState and no mission
EngineInit ==
    /\ projectiles = <<>>
    /\ explosions = <<>>
    /\ debris = <<>>
    /\ accumulated_time = FZero
    /\ pc = "idle"
    /\ steps = 0
    /\ elapsed = FZero
    /\ game = GameState
    /\ mission = None

\* create_explosion for every explosion effect a projectile returned
RECURSIVE spawn(_, _, _)
spawn(us, expls, effects) ==
    IF effects = <<>> THEN expls
    ELSE spawn(us,
               Append(expls, Explosion(us, Head(effects).position, Head(effects).radius,
                                       Head(effects).damage, Head(effects).owner)),
               Tail(effects))

\* todo: the projectiles still to visit; kept: those visited and retained
RECURSIVE _update_projectiles(_, _, _, _, _, _)
\* after projectile.update(dt, game_state) has returned or raised
projectile_updated(r, todo, kept, expls, dodge, dir) ==
    IF r.error # None
    THEN [units |-> r.units, projectiles |-> kept \o <<r.proj>> \o Tail(todo),
          explosions |-> expls, error |-> r.error]
    ELSE _update_projectiles(r.units, Tail(todo), Append(kept, r.proj),
                             spawn(r.units, expls, r.effects), dodge, dir)

_update_projectiles(us, todo, kept, expls, dodge, dir) ==
    IF todo = <<>>
    THEN [units |-> us, projectiles |-> kept, explosions |-> expls, error |-> None]
    ELSE IF ~Head(todo).active
    THEN _update_projectiles(us, Tail(todo), kept, expls, dodge, dir)
    ELSE projectile_updated(Projectile_update(us, Head(todo), dodge, dir),
                            todo, kept, expls, dodge, dir)

RECURSIVE _update_explosions(_, _, _, _, _)
\* after explosion.update(dt, game_state) has returned or raised
explosion_updated(r, todo, kept, dodge, dir) ==
    IF r.error # None
    THEN [units |-> r.units, explosions |-> kept \o <<r.ex>> \o Tail(todo),
          error |-> r.error]
    ELSE _update_explosions(r.units, Tail(todo), Append(kept, r.ex), dodge, dir)

_update_explosions(us, todo, kept, dodge, dir) ==
    IF todo = <<>>
    THEN [units |-> us, explosions |-> kept, error |-> None]
    ELSE IF ~Head(todo).active
    THEN _update_explosions(us, Tail(todo), kept, dodge, dir)
    ELSE explosion_updated(Explosion_update(us, Head(todo), dodge, dir),
                           todo, kept, dodge, dir)

\* the projectiles are kept as they are while the explosions are updated
with_projectiles(p, e) ==
    [units |-> e.units, projectiles |-> p.projectiles,
     explosions |-> e.explosions, error |-> e.error]

\* _update_explosions runs unless _update_projectiles raised
then_explosions(p, dodge, dir) ==
    IF p.error # None THEN p
    ELSE with_projectiles(p, _update_explosions(p.units, p.explosions, <<>>, dodge, dir))

\* np.random.uniform(5, 15) for the lifetimes of the pieces of one explosion:
\* the pieces take the values of the draw in turn
DebrisDraws ==
    { <<Seconds(5)>>,
      <<Seconds(6), FAdd(Seconds(5), HalfSecond), Seconds(10)>> }

\* int(radius * 5) pieces, the radius being in 1/600 world unit
_create_debris(radius, draw) ==
    [i \in 1..((radius * 5) \div 600) |->
        [lifetime |-> draw[((i - 1) % Len(draw)) + 1]]]

\* _create_debris for every explosion appended after the first n
RECURSIVE created(_, _, _)
created(expls, n, draw) ==
    IF n >= Len(expls) THEN <<>>
    ELSE _create_debris(expls[n + 1].radius, draw) \o created(expls, n + 1, draw)

\* lifetime - dt > 0
lasting(piece) == FLess(physics_step, piece.lifetime)

aged(kept) == [i \in DOMAIN kept |-> [kept[i] EXCEPT !.lifetime = FSub(@, physics_step)]]

\* debris['lifetime'] -= dt; a piece at or below 0 is removed
_update_debris(deb) == aged(SelectSeq(deb, lasting))

\* _update_debris runs unless an earlier part of the step raised
with_debris(r, deb) ==
    [units |-> r.units, projectiles |-> r.projectiles, explosions |-> r.explosions,
     error |-> r.error,
     debris |-> IF r.error = None THEN _update_debris(deb) ELSE deb]

\* p: what _update_projectiles left; n: the explosions there were before it
after_projectiles(p, n, deb, draw, dodge, dir) ==
    with_debris(then_explosions(p, dodge, dir), deb \o created(p.explosions, n, draw))

\* one iteration of the while loop of PhysicsEngine.update
fixed_step(us, projs, expls, deb, draw, dodge, dir) ==
    after_projectiles(_update_projectiles(us, projs, <<>>, expls, dodge, dir),
                      Len(expls), deb, draw, dodge, dir)

fire_projectile(us, start_position, target_position, target_unit, projectile_type, owner, damage) ==
    LET speed == IF projectile_type = "grenade" THEN 60
                 ELSE IF projectile_type = "portal_arrow" THEN 120
                 ELSE IF projectile_type = "energy_bolt" THEN 150
                 ELSE 100
        lifetime == IF projectile_type = "grenade" THEN Seconds(10)
                    ELSE IF projectile_type = "energy_bolt" THEN Seconds(3)
                    ELSE Seconds(5)
    IN  Projectile(us, start_position, target_position, target_unit, speed, damage,
                   owner, lifetime, projectile_type)

\* the target is start + 1000 * direction, 1000 world units being 600000
\* length units; the faction string is the owner
create_projectile(us, start_position, direction, faction, damage, projectile_type) ==
    LET target_position == <<start_position[1] + direction[1] * 600000,
                             start_position[2] + direction[2] * 600000,
                             start_position[3] + direction[3] * 600000>>
        actual_type == IF projectile_type = "energy" THEN "energy_bolt"
                       ELSE IF projectile_type = "portal" THEN "portal_arrow"
                       ELSE IF projectile_type = "grenade" THEN "grenade"
                       ELSE "arrow"
    IN  fire_projectile(us, start_position, target_position, None, actual_type,
                        faction, damage)

(***************************************************************************)
(* UnitFactory.  The unit and squad tables grow by the objects created;    *)
(* draws lists, per unit to create, the random offset and the random       *)
(* number of the scattered formation.                                      *)
(***************************************************************************)
\* an unknown type string is given a base Unit instead of being refused
create_unit_of_any_type(unit_type, position, faction) ==
    IF unit_type = "dimensioneer" THEN <<Dimensioneer(position, faction)>>
    ELSE IF unit_type = "portal_archer" THEN <<PortalArcher(position, faction)>>
    ELSE IF unit_type = "tech_grenadier" THEN <<TechGrenadier(position, faction)>>
    ELSE IF unit_type = "gromflomite" THEN <<Gromflomite(position, faction)>>
    ELSE <<Unit(unit_type, position, faction)>>

\* the unit created, as a one-element tuple, or the empty tuple for None
create_unit(unit_type, position, faction) ==
    IF unit_type = "dimensioneer" THEN <<Dimensioneer(position, faction)>>
    ELSE IF unit_type = "portal_archer" THEN <<PortalArcher(position, faction)>>
    ELSE IF unit_type = "tech_grenadier" THEN <<TechGrenadier(position, faction)>>
    ELSE IF unit_type = "gromflomite" THEN <<Gromflomite(position, faction)>>
    ELSE <<>>

FactoryUnitIds ==
    <<"f1", "f2", "f3", "f4", "f5", "f6", "f7", "f8",
      "f9", "f10", "f11", "f12", "f13", "f14", "f15", "f16">>

FactorySquadIds == <<"q1", "q2", "q3", "q4">>

\* the identity of the next object created
new_unit(us) == FactoryUnitIds[Cardinality(DOMAIN us) + 1]

new_squad(sqs) == FactorySquadIds[Cardinality(DOMAIN sqs) + 1]

rolls_of(draws) == [i \in 1..Len(draws) |-> draws[i].roll]

RECURSIVE recruit(_, _, _, _, _, _, _, _)
\* if unit: squad.add_unit(unit)
enlist(made, us, sqs, q, types, position, faction, draws, i) ==
    IF made = <<>>
    THEN recruit(us, sqs, q, types, position, faction, draws, i + 1)
    ELSE recruit(add_unit_rolled(us @@ (new_unit(us) :> made[1]), sqs, q,
                                 new_unit(us), rolls_of(draws)).units,
                 [sqs EXCEPT ![q].units = Append(@, new_unit(us))],
                 q, types, position, faction, draws, i + 1)

\* the loops that create the units: unit i is of type types[i], placed at
\* position + its random offset
recruit(us, sqs, q, types, position, faction, draws, i) ==
    IF i > Len(types) THEN SOk(us, sqs)
    ELSE enlist(create_unit(types[i],
                            <<position[1] + draws[i].offset[1],
                              position[2] + draws[i].offset[2]>>, faction),
                us, sqs, q, types, position, faction, draws, i)

\* squad._update_formation() at the end of create_squad / create_mixed_squad
positioned(r, q, draws) ==
    SOk(_update_formation_rolled(r.units, r.squads[q], rolls_of(draws)), r.squads)

\* the formation create_squad sets for a unit type, None for any other string
squad_formation(squad_type) ==
    IF squad_type = "dimensioneer" THEN "LINE"
    ELSE IF squad_type = "portal_archer" THEN "WEDGE"
    ELSE IF squad_type = "tech_grenadier" THEN "SCATTERED"
    ELSE IF squad_type = "gromflomite" THEN "LINE"
    ELSE None

\* the squads after Squad(name, faction, position) and set_formation on the
\* still empty squad, which touches no unit
founded(sqs, q, squad_type, position, faction) ==
    IF squad_formation(squad_type) # None
    THEN set_formation(<<>>, sqs @@ (q :> Squad(faction, position)), q,
                       squad_formation(squad_type)).squads
    ELSE sqs @@ (q :> Squad(faction, position))

create_squad(us, sqs, q, squad_type, position, faction, draws) ==
    positioned(recruit(us, founded(sqs, q, squad_type, position, faction), q,
                       [i \in 1..Len(draws) |-> squad_type], position, faction, draws, 1),
               q, draws)

RECURSIVE roster(_)
\* for unit_type, count in composition.items(): for i in range(count)
roster(composition) ==
    IF composition = <<>> THEN <<>>
    ELSE [i \in 1..Head(composition)[2] |-> Head(composition)[1]] \o roster(Tail(composition))

create_mixed_squad(us, sqs, q, position, composition, faction, draws) ==
    positioned(recruit(us, sqs @@ (q :> Squad(faction, position)), q,
                       roster(composition), position, faction, draws, 1),
               q, draws)

(***************************************************************************)
(* Mission and GameState.update.  Times are in tenths of a second; the     *)
(* squads of the GameState's lists are ids of the squad table; an          *)
(* objective or a squad configuration is the record of its keys with the   *)
(* defaults of .get() filled in.                                           *)
(***************************************************************************)
MResult(us, sqs, g, m, err) ==
    [units |-> us, squads |-> sqs, game |-> g, mission |-> m, error |-> err]

\* Mission.__init__ followed by load_from_file; groups holds squad.group for
\* the squads that were given one
Mission(data) ==
    [ time_limit           |-> data.time_limit,
      objectives           |-> data.objectives,
      completed_objectives |-> <<>>,
      player_squads_config |-> data.player_squads,
      enemy_waves          |-> data.enemy_waves,
      current_wave         |-> 0,
      next_wave_time       |-> 0,
      groups               |-> <<>> ]

\* the random draws of n units, taken from draws in turn
dealt(draws, n) == [i \in 1..n |-> draws[((i - 1) % Len(draws)) + 1]]

RECURSIVE spawn_squads(_, _, _, _, _, _)
\* after unit_factory.create_squad: squad.group is set and the squad appended
squad_spawned(r, q, g, m, configs, draws) ==
    spawn_squads(r.units, r.squads,
                 [g EXCEPT !.enemy_squads = Append(@, q)],
                 IF Head(configs).group # None
                 THEN [m EXCEPT !.groups = (q :> Head(configs).group) @@ @]
                 ELSE m,
                 Tail(configs), draws)

spawn_squads(us, sqs, g, m, configs, draws) ==
    IF configs = <<>> THEN MResult(us, sqs, g, m, None)
    ELSE squad_spawned(create_squad(us, sqs, new_squad(sqs), Head(configs).type,
                                    Head(configs).position, "enemy",
                                    dealt(draws, Head(configs).size)),
                       new_squad(sqs), g, m, configs, draws)

\* wave_index counts from 0
_spawn_enemy_wave(us, sqs, g, m, wave_index, draws) ==
    IF wave_index >= Len(m.enemy_waves) THEN MResult(us, sqs, g, m, None)
    ELSE spawn_squads(us, sqs, g, m, m.enemy_waves[wave_index + 1].squads, draws)

third(size) == Max(1, size \div 3)

RECURSIVE muster(_, _, _, _, _, _)
squad_mustered(r, q, g, m, configs, draws) ==
    muster(r.units, r.squads, [g EXCEPT !.player_squads = Append(@, q)], m,
           Tail(configs), draws)

\* the player squads of setup_game_state, by configured type
muster(us, sqs, g, m, configs, draws) ==
    IF configs = <<>> THEN MResult(us, sqs, g, m, None)
    ELSE IF Head(configs).type = "balanced"
    THEN squad_mustered(
             create_mixed_squad(us, sqs, new_squad(sqs), Head(configs).position,
                 << <<"dimensioneer", third(Head(configs).size)>>,
                    <<"portal_archer", third(Head(configs).size)>>,
                    <<"tech_grenadier", third(Head(configs).size)>> >>,
                 "player", dealt(draws, 3 * third(Head(configs).size))),
             new_squad(sqs), g, m, configs, draws)
    ELSE IF Head(configs).type = "archer"
    THEN squad_mustered(
             create_squad(us, sqs, new_squad(sqs), "portal_archer", Head(configs).position,
                          "player", dealt(draws, Head(configs).size)),
             new_squad(sqs), g, m, configs, draws)
    ELSE IF Head(configs).type = "grenadier"
    THEN squad_mustered(
             create_squad(us, sqs, new_squad(sqs), "tech_grenadier", Head(configs).position,
                          "player", dealt(draws, Head(configs).size)),
             new_squad(sqs), g, m, configs, draws)
    ELSE squad_mustered(
             create_mixed_squad(us, sqs, new_squad(sqs), Head(configs).position,
                 << <<"dimensioneer", 3>>, <<"portal_archer", 2>>, <<"tech_grenadier", 1>> >>,
                 "player", dealt(draws, 6)),
             new_squad(sqs), g, m, configs, draws)

\* self.current_wave = 0; self.completed_objectives = []
mission_reset(r) ==
    [r EXCEPT !.mission.current_wave = 0, !.mission.completed_objectives = <<>>]

\* the first wave is spawned if there is any wave
first_wave(r, draws) ==
    mission_reset(IF r.mission.enemy_waves # <<>>
                  THEN _spawn_enemy_wave(r.units, r.squads, r.game, r.mission, 0, draws)
                  ELSE r)

setup_game_state(us, sqs, g, m, draws) ==
    first_wave(muster(us, sqs,
                      [g EXCEPT !.game_time = 0,
                                !.time_limit = m.time_limit,
                                !.mission_objectives = m.objectives,
                                !.player_squads = <<>>,
                                !.enemy_squads = <<>>],
                      m, m.player_squads_config, draws),
               draws)

should_spawn_next_wave(g, m, next_wave) ==
    IF next_wave.trigger = "time" THEN g.game_time >= next_wave.trigger_time
    ELSE IF next_wave.trigger = "enemies_defeated" THEN Len(g.enemy_squads) = 0
    ELSE IF next_wave.trigger = "objective_complete"
    THEN \E i \in DOMAIN m.completed_objectives :
            m.completed_objectives[i] = next_wave.trigger_objective
    ELSE FALSE

\* the first half of Mission.update
next_wave_checked(us, sqs, g, m, draws) ==
    IF /\ m.current_wave < Len(m.enemy_waves) - 1
       /\ should_spawn_next_wave(g, m, m.enemy_waves[m.current_wave + 2])
    THEN _spawn_enemy_wave(us, sqs, g, [m EXCEPT !.current_wave = @ + 1],
                           m.current_wave + 1, draws)
    ELSE MResult(us, sqs, g, m, None)

\* a unit of the squad is within the radius of the objective's position
reached(us, sq, objective) ==
    \E i \in DOMAIN sq.units :
        Distance(us[sq.units[i]].position, objective.position) <= objective.radius

\* the squads of target_group have no units left
group_defeated(sqs, g, m, target_group) ==
    \A i \in DOMAIN g.enemy_squads :
        (/\ g.enemy_squads[i] \in DOMAIN m.groups
         /\ m.groups[g.enemy_squads[i]] = target_group)
            => sqs[g.enemy_squads[i]].units = <<>>

\* the completed list after one objective that is not yet on it
objective_checked(us, sqs, g, m, objective, completed) ==
    IF objective.type \in {"defeat_all", "default"}
    THEN IF objective.target_group # None
         THEN IF group_defeated(sqs, g, m, objective.target_group)
              THEN Append(completed, objective.id) ELSE completed
         ELSE IF Len(g.enemy_squads) = 0
              THEN Append(completed, objective.id) ELSE completed
    ELSE IF objective.type = "survive_time"
    THEN IF g.game_time >= objective.time
         THEN Append(completed, objective.id) ELSE completed
    ELSE IF objective.type = "reach_position"
    THEN completed \o
         [i \in 1..Cardinality({j \in DOMAIN g.player_squads :
                                   reached(us, sqs[g.player_squads[j]], objective)})
             |-> objective.id]
    ELSE completed

RECURSIVE _check_objectives(_, _, _, _, _, _)
_check_objectives(us, sqs, g, m, todo, completed) ==
    IF todo = <<>> THEN completed
    ELSE _check_objectives(us, sqs, g, m, Tail(todo),
             IF \E i \in DOMAIN completed : completed[i] = Head(todo).id
             THEN completed
             ELSE objective_checked(us, sqs, g, m, Head(todo), completed))

objectives_checked(r) ==
    [r EXCEPT !.mission.completed_objectives =
        _check_objectives(r.units, r.squads, r.game, r.mission, r.mission.objectives, @)]

Mission_update(us, sqs, g, m, draws) ==
    objectives_checked(next_wave_checked(us, sqs, g, m, draws))

\* self.game_time += dt and the time limit
clock(g, dt) ==
    [g EXCEPT !.game_time = @ + dt,
              !.mission_failed = IF g.time_limit > 0 /\ g.game_time + dt >= g.time_limit
                                 THEN TRUE ELSE @]

RECURSIVE update_squads(_, _, _, _, _, _)
squad_updated(r, todo, dt, dodge, dir) ==
    IF r.error # None THEN r
    ELSE update_squads(r.units, r.squads, Tail(todo), dt, dodge, dir)

\* for squad in self.player_squads: squad.update(dt, self)
update_squads(us, sqs, todo, dt, dodge, dir) ==
    IF todo = <<>> THEN SOk(us, sqs)
    ELSE squad_updated(Squad_update(us, sqs, Head(todo), dt, dodge, dir),
                       todo, dt, dodge, dir)

RECURSIVE all_units_of(_, _)
all_units_of(sqs, todo) ==
    IF todo = <<>> THEN <<>>
    ELSE sqs[Head(todo)].units \o all_units_of(sqs, Tail(todo))

get_all_player_units(sqs, g) == all_units_of(sqs, g.player_squads)

\* squad.attack_target(target_unit): list() of a Unit raises TypeError
attack_ordered(r, g, q, roll) ==
    IF /\ get_all_player_units(r.squads, g) # <<>>
       /\ Distance(r.units[get_all_player_units(r.squads, g)[
                      ((roll.pick - 1) % Len(get_all_player_units(r.squads, g))) + 1]].position,
                   r.squads[q].position) < 2000
    THEN WithSquads(Raise(r.units, "TypeError"), r.squads)
    ELSE r

\* the order the enemy AI draws for one squad: none (random() >= 0.01), a
\* move by a random offset, or the move and an attack on a random player unit
ordered(us, sqs, g, q, roll) ==
    IF roll.kind = "none" THEN SOk(us, sqs)
    ELSE IF roll.kind = "move"
    THEN Squad_move_to(us, sqs, q, <<sqs[q].position[1] + roll.offset[1],
                                     sqs[q].position[2] + roll.offset[2]>>)
    ELSE attack_ordered(
             Squad_move_to(us, sqs, q, <<sqs[q].position[1] + roll.offset[1],
                                         sqs[q].position[2] + roll.offset[2]>>),
             g, q, roll)

RECURSIVE update_enemy_squads(_, _, _, _, _, _, _, _)
enemy_updated(r, g, todo, ai, dt, dodge, dir) ==
    IF r.error # None THEN r
    ELSE update_enemy_squads(r.units, r.squads, g, Tail(todo), Tail(ai), dt, dodge, dir)

enemy_ordered(r, g, todo, ai, dt, dodge, dir) ==
    IF r.error # None THEN r
    ELSE enemy_updated(Squad_update(r.units, r.squads, Head(todo), dt, dodge, dir),
                       g, todo, ai, dt, dodge, dir)

\* for squad in self.enemy_squads: the AI's order, then squad.update(dt, self)
update_enemy_squads(us, sqs, g, todo, ai, dt, dodge, dir) ==
    IF todo = <<>> THEN SOk(us, sqs)
    ELSE enemy_ordered(ordered(us, sqs, g, Head(todo), Head(ai)),
                       g, todo, ai, dt, dodge, dir)

\* the two checks that close GameState.update
flagged(r, g) ==
    MResult(r.units, r.squads,
            IF r.error # None THEN g
            ELSE [g EXCEPT
                    !.mission_failed = IF Len(g.player_squads) = 0 THEN TRUE ELSE @,
                    !.mission_complete = IF Len(g.enemy_squads) = 0
                                            /\ g.mission_objectives # <<>>
                                         THEN TRUE ELSE @],
            None, r.error)

enemies_phase(r, g, ai, dt, dodge, dir) ==
    IF r.error # None THEN flagged(r, g)
    ELSE flagged(update_enemy_squads(r.units, r.squads, g, g.enemy_squads, ai, dt,
                                     dodge, dir), g)

\* the mission field of the result is not used
GameState_update(us, sqs, g, dt, ai, dodge, dir) ==
    enemies_phase(update_squads(us, sqs, g.player_squads, dt, dodge, dir),
                  clock(g, dt), ai, dt, dodge, dir)

(***************************************************************************)
(* The unit world: two opposed units driven through the public Unit API    *)
(***************************************************************************)
Amounts == {0, 40, 150}

HealAmounts == {30, 1000}

Waypoints == {<<0, 0>>, <<30, 40>>}

Dts == {5, 10}

NoCall == [op |-> "init", u |-> None, amount |-> 0, attacker |-> None,
           nargs |-> 0, pos |-> ZeroVec, flag |-> FALSE, args |-> <<>>]

Call(op, u) == [NoCall EXCEPT !.op = op, !.u = u]

\* u1 is the unit under command: a base Unit or a Dimensioneer, one melee
\* reach away from u2, further off on a diagonal, or stacked on it.
\* u2 is its opponent: a melee unit with the knockback stats of the melee
\* scenario, or a unit whose reach makes it non-melee.
UnitWorlds ==
    { [u1 |-> [r1 EXCEPT !.knockback_resistance = 5, !.knockback_recovery = 10],
       u2 |-> r2] :
        r1 \in { Unit("test_unit", p, "player") : p \in {<<10, 0>>, <<30, 40>>, <<0, 0>>} }
               \cup { Dimensioneer(<<10, 0>>, "player") },
        r2 \in { [Unit("enemy_unit", <<0, 0>>, "enemy") EXCEPT
                    !.attack_range = 15, !.knockback_power = 20,
                    !.knockback_resistance = 5],
                 [Unit("gromflomite", <<0, 0>>, "enemy") EXCEPT
                    !.attack_range = 150, !.speed = 40, !.damage = 12] } }

InitUnit ==
    /\ units \in UnitWorlds
    /\ squads = <<>>
    /\ EngineInit
    /\ error = None
    /\ call = NoCall
    /\ ncalls = 0

\* the random draws are enumerated only where the handler can consume them
Stacked(us, v, attacker) ==
    /\ v \in DOMAIN us
    /\ attacker \in DOMAIN us
    /\ us[v].position = us[attacker].position

\* every handler runs to completion or to its exception; ncalls bounds a run
Enabled == error = None /\ ncalls < MaxCalls

Done(res, c) ==
    /\ units' = res.units
    /\ UNCHANGED <<squads, engine, campaign>>
    /\ error' = res.error
    /\ call' = c
    /\ ncalls' = ncalls + 1

TakeDamage ==
    /\ Enabled
    /\ \E v \in DOMAIN units, amount \in Amounts, nargs \in {1, 2},
          attacker \in ((DOMAIN units) \cup {None} \cup Factions),
          dodge \in BOOLEAN, dir \in RandomDirs :
          /\ attacker # v
          /\ nargs = 1 => attacker = None
          /\ dodge => (units[v].type = "dimensioneer" /\ nargs = 1)
          /\ dir # <<10, 0>> => Stacked(units, v, attacker)
          /\ Done(take_damage(units, v, amount, attacker, nargs, dodge, dir),
                  [Call("take_damage", v) EXCEPT !.amount = amount,
                       !.attacker = attacker, !.nargs = nargs, !.flag = dodge])

Heal ==
    /\ Enabled
    /\ \E u \in DOMAIN units, amount \in HealAmounts :
          Done(Ok([units EXCEPT ![u] = heal(@, amount)]),
               [Call("heal", u) EXCEPT !.amount = amount])

SetDestination ==
    /\ Enabled
    /\ \E u \in DOMAIN units, pos \in Waypoints :
          Done(Ok([units EXCEPT ![u] = set_destination(@, pos)]),
               [Call("set_destination", u) EXCEPT !.pos = pos])

MoveTo ==
    /\ Enabled
    /\ \E u \in DOMAIN units, pos \in Waypoints :
          Done(Ok([units EXCEPT ![u] = move_to(@, pos)]),
               [Call("move_to", u) EXCEPT !.pos = pos])

SetTarget ==
    /\ Enabled
    /\ \E u \in DOMAIN units, t \in ((DOMAIN units) \cup {None}) :
          /\ t # u
          /\ Done(Ok([units EXCEPT ![u] = set_target(@, t)]),
                  [Call("set_target", u) EXCEPT !.attacker = t])

SetAttackMode ==
    /\ Enabled
    /\ \E u \in DOMAIN units, attacking \in BOOLEAN :
          Done(Ok([units EXCEPT ![u] = set_attack_mode(@, attacking)]),
               [Call("set_attack_mode", u) EXCEPT !.flag = attacking])

IssueMoveCommand ==
    /\ Enabled
    /\ \E u \in DOMAIN units, pos \in Waypoints :
          Done(Ok([units EXCEPT ![u] = issue_move_command(@, pos)]),
               [Call("issue_move_command", u) EXCEPT !.pos = pos])

IssueAttackCommand ==
    /\ Enabled
    /\ \E u \in DOMAIN units, t \in DOMAIN units :
          /\ t # u
          /\ Done(Ok([units EXCEPT ![u] = issue_attack_command(units, u, t)]),
                  [Call("issue_attack_command", u) EXCEPT !.attacker = t])

Update ==
    /\ Enabled
    /\ \E u \in DOMAIN units, dt \in Dts, dodge \in BOOLEAN, dir \in RandomDirs :
          /\ dodge => (units[u].target # None /\ units[units[u].target].type = "dimensioneer")
          /\ dir # <<10, 0>> => Stacked(units, units[u].target, u)
          /\ Done(Unit_update(units, u, dt, dodge, dir),
               [Call("update", u) EXCEPT !.amount = dt])

NextUnit ==
    \/ Heal
    \/ SetDestination
    \/ MoveTo
    \/ SetTarget
    \/ SetAttackMode
    \/ IssueMoveCommand
    \/ IssueAttackCommand
    \/ Update
    \/ TakeDamage

Spec == InitUnit /\ [][NextUnit]_vars

(***************************************************************************)
(* The pursuit world: u1 is ordered to attack u2, 5.0 away, while u2 is    *)
(* ordered about and both are updated                                      *)
(***************************************************************************)
MaxChaseCalls == 4

ChaseWaypoints == {<<0, 50>>, <<-30, 0>>, <<30, 40>>}

ChaseUnits ==
    [ u1 |-> Unit("test_unit", <<30, 40>>, "player"),
      u2 |-> Unit("enemy_unit", <<0, 0>>, "enemy") ]

InitChase ==
    /\ units = ChaseUnits
    /\ squads = <<>>
    /\ EngineInit
    /\ error = None
    /\ call = NoCall
    /\ ncalls = 0

ChEnabled == error = None /\ ncalls < MaxChaseCalls

\* u1.issue_attack_command(u2)
ChaseOrdered ==
    /\ ChEnabled
    /\ Done(Ok([units EXCEPT !["u1"] = issue_attack_command(units, "u1", "u2")]),
            [Call("issue_attack_command", "u1") EXCEPT !.attacker = "u2"])

\* u2.move_to(pos)
ChaseTargetOrdered ==
    /\ ChEnabled
    /\ \E pos \in ChaseWaypoints :
          Done(Ok([units EXCEPT !["u2"] = move_to(@, pos)]),
               [Call("move_to", "u2") EXCEPT !.pos = pos])

\* unit.update(dt, game_state) for either unit
ChaseUpdate ==
    /\ ChEnabled
    /\ \E u \in DOMAIN units, dt \in Dts :
          Done(Unit_update(units, u, dt, FALSE, <<10, 0>>),
               [Call("update", u) EXCEPT !.amount = dt])

NextChase ==
    \/ ChaseOrdered
    \/ ChaseTargetOrdered
    \/ ChaseUpdate

SpecChase == InitChase /\ [][NextChase]_vars

(***************************************************************************)
(* The drill ground: a unit at the origin under a bounded number of        *)
(* commands and an unbounded number of update ticks, and a stationary      *)
(* enemy that is never updated                                             *)
(***************************************************************************)
MaxDrillCalls == 2

DrillWaypoints == {<<30, 40>>, <<100, 0>>, <<3, 0>>, <<0, -77>>}

DrillDts == {5, 10}

DrillUnits ==
    { [u1 |-> r1, e1 |-> Unit("enemy_unit", <<60, 80>>, "enemy")] :
        r1 \in { Unit("test_unit", <<0, 0>>, "player"), Dimensioneer(<<0, 0>>, "player") } }

InitDrill ==
    /\ units \in DrillUnits
    /\ squads = <<>>
    /\ EngineInit
    /\ error = None
    /\ call = NoCall
    /\ ncalls = 0

DEnabled == error = None /\ ncalls < MaxDrillCalls

\* u1.set_destination(pos)
DrillDestinationSet ==
    /\ DEnabled
    /\ \E pos \in DrillWaypoints :
          Done(Ok([units EXCEPT !["u1"] = set_destination(@, pos)]),
               [Call("set_destination", "u1") EXCEPT !.pos = pos])

\* u1.set_target(e1)
DrillTargetSet ==
    /\ DEnabled
    /\ Done(Ok([units EXCEPT !["u1"] = set_target(@, "e1")]),
            [Call("set_target", "u1") EXCEPT !.attacker = "e1"])

\* u1.set_attack_mode(attacking)
DrillAttackModeSet ==
    /\ DEnabled
    /\ \E attacking \in BOOLEAN :
          Done(Ok([units EXCEPT !["u1"] = set_attack_mode(@, attacking)]),
               [Call("set_attack_mode", "u1") EXCEPT !.flag = attacking])

\* u1.update(dt, game_state); the ticks are not counted as commands
DrillTick ==
    /\ error = None
    /\ \E dt \in DrillDts :
          /\ units' = Unit_update(units, "u1", dt, FALSE, <<10, 0>>).units
          /\ error' = Unit_update(units, "u1", dt, FALSE, <<10, 0>>).error
          /\ call' = [Call("update", "u1") EXCEPT !.amount = dt]
    /\ UNCHANGED <<squads, engine, ncalls, campaign>>

NextDrill ==
    \/ DrillDestinationSet
    \/ DrillTargetSet
    \/ DrillAttackModeSet
    \/ DrillTick

\* the game loop goes on calling update for as long as nothing has raised
SpecDrill == InitDrill /\ [][NextDrill]_vars /\ WF_vars(DrillTick)

(***************************************************************************)
(* The squad world: a player squad of two units, an empty second squad and *)
(* one enemy unit, driven through the public Squad API                     *)
(***************************************************************************)
MaxSquadCalls == 3

SquadTargets == {<<300, 400>>, <<0, 0>>}

Formations == {"LINE", "WEDGE", "COLUMN", "CIRCLE"}

SquadUnits ==
    [ u1 |-> Unit("test_unit1", <<0, 0>>, "player"),
      u2 |-> Dimensioneer(<<200, 0>>, "player"),
      u3 |-> Unit("enemy_unit", <<300, 400>>, "enemy") ]

EmptySquads ==
    [ s1 |-> Squad("player", <<0, 0>>),
      s2 |-> Squad("enemy", <<300, 400>>) ]

\* the squad after its construction: add_unit(u1), add_unit(u2)
SquadWorld ==
    LET a == add_unit(SquadUnits, EmptySquads, "s1", "u1")
    IN  add_unit(a.units, a.squads, "s1", "u2")

InitSquad ==
    /\ EngineInit
    /\ units = SquadWorld.units
    /\ squads = SquadWorld.squads
    /\ error = None
    /\ call = NoCall
    /\ ncalls = 0

SEnabled == error = None /\ ncalls < MaxSquadCalls

SDone(res, c) ==
    /\ UNCHANGED <<engine, campaign>>
    /\ units' = res.units
    /\ squads' = res.squads
    /\ error' = res.error
    /\ call' = c
    /\ ncalls' = ncalls + 1

AddUnit ==
    /\ SEnabled
    /\ \E s \in DOMAIN squads, u \in DOMAIN units :
          SDone(add_unit(units, squads, s, u),
                [Call("add_unit", s) EXCEPT !.attacker = u])

RemoveUnit ==
    /\ SEnabled
    /\ \E s \in DOMAIN squads, u \in DOMAIN units :
          SDone(remove_unit(units, squads, s, u),
                [Call("remove_unit", s) EXCEPT !.attacker = u])

SquadMoveTo ==
    /\ SEnabled
    /\ \E s \in DOMAIN squads, pos \in SquadTargets :
          SDone(Squad_move_to(units, squads, s, pos),
                [Call("squad_move_to", s) EXCEPT !.pos = pos])

SetFormation ==
    /\ SEnabled
    /\ \E s \in DOMAIN squads, f \in Formations :
          SDone(set_formation(units, squads, s, f),
                [Call("set_formation", s) EXCEPT !.attacker = f])

AttackTarget ==
    /\ SEnabled
    /\ \E s \in DOMAIN squads, pos \in SquadTargets :
          SDone(attack_target(units, squads, s, pos),
                [Call("attack_target", s) EXCEPT !.pos = pos])

AttackUnit ==
    /\ SEnabled
    /\ \E s \in DOMAIN squads, t \in DOMAIN units :
          SDone(attack_unit(units, squads, s, t),
                [Call("attack_unit", s) EXCEPT !.attacker = t])

\* live member m is attacking, free of knockback, and its target is dead or
\* of its own faction
stale_target(us, m) ==
    /\ is_alive(us[m])
    /\ us[m].knockback_timer <= 0
    /\ us[m].state = "attacking"
    /\ us[m].target # None
    /\ \/ us[us[m].target].state = "dead"
       \/ us[us[m].target].faction = us[m].faction

\* the call record notes whether a member went into the update with a stale
\* target
SquadUpdate ==
    /\ SEnabled
    /\ \E s \in DOMAIN squads, dt \in Dts :
          SDone(Squad_update(units, squads, s, dt, FALSE, <<10, 0>>),
                [Call("squad_update", s) EXCEPT !.amount = dt,
                    !.flag = \E m \in Members(squads[s]) : stale_target(units, m)])

\* a member is hit from outside the squad's own commands
SquadMemberHit ==
    /\ SEnabled
    /\ \E v \in DOMAIN units, amount \in {150} :
          SDone(WithSquads(take_damage(units, v, amount, None, 1, FALSE, <<10, 0>>),
                           squads),
                [Call("take_damage", v) EXCEPT !.amount = amount, !.nargs = 1])

NextSquad ==
    \/ AddUnit
    \/ RemoveUnit
    \/ SquadMoveTo
    \/ SetFormation
    \/ AttackTarget
    \/ AttackUnit
    \/ SquadUpdate
    \/ SquadMemberHit

SpecSquad == InitSquad /\ [][NextSquad]_vars

\* the squad world driven through add_unit and remove_unit only
NextMembership ==
    \/ AddUnit
    \/ RemoveUnit

SpecMembership == InitSquad /\ [][NextMembership]_vars

(***************************************************************************)
(* The formation world: one squad of 2 .. MaxFormationUnits units and a    *)
(* formation_width of 1 .. MaxFormationWidth, re-formed through            *)
(* _update_formation, set_formation and move_to                            *)
(***************************************************************************)
MaxFormationUnits == 6

MaxFormationWidth == 6

MaxFormationCalls == 2

FormationIds == <<"u1", "u2", "u3", "u4", "u5", "u6", "u7", "u8">>

\* add_unit for each id in turn
RECURSIVE Mustered(_, _, _)
Mustered(us, sqs, ids) ==
    IF ids = <<>> THEN SOk(us, sqs)
    ELSE Mustered(add_unit(us, sqs, "s1", Head(ids)).units,
                  add_unit(us, sqs, "s1", Head(ids)).squads, Tail(ids))

\* n units standing 2.0 apart, mustered into a squad of the given width
FormationWorld(n, width) ==
    Mustered([i \in {FormationIds[k] : k \in 1..n} |->
                 Unit(i, <<20 * (CHOOSE k \in 1..n : FormationIds[k] = i), 0>>, "player")],
             [s1 |-> [Squad("player", <<0, 0>>) EXCEPT !.formation_width = width]],
             SubSeq(FormationIds, 1, n))

InitFormation ==
    /\ EngineInit
    /\ \E n \in 2..MaxFormationUnits, width \in 1..MaxFormationWidth :
          /\ units = FormationWorld(n, width).units
          /\ squads = FormationWorld(n, width).squads
    /\ error = None
    /\ call = NoCall
    /\ ncalls = 0

FEnabled == error = None /\ ncalls < MaxFormationCalls

\* Squad._update_formation called on its own
FormUp ==
    /\ FEnabled
    /\ SDone(SOk(_update_formation(units, squads["s1"]), squads),
             Call("_update_formation", "s1"))

FormationChange ==
    /\ FEnabled
    /\ SetFormation

FormationMove ==
    /\ FEnabled
    /\ SquadMoveTo

NextFormation ==
    \/ FormUp
    \/ FormationChange
    \/ FormationMove

SpecFormation == InitFormation /\ [][NextFormation]_vars

(***************************************************************************)
(* The physics world: a shooter, two enemies on the x axis and an engine   *)
(* driven through fire_projectile, create_projectile, create_explosion     *)
(* and update(dt)                                                          *)
(***************************************************************************)
MaxPhysCalls == 3

PhysUnits ==
    [ p1 |-> Unit("shooter", <<0, 0>>, "player"),
      e1 |-> Unit("enemy_unit", <<50, 0>>, "enemy"),
      e2 |-> Dimensioneer(<<200, 0>>, "enemy") ]

\* dt of a frame: 1/60, 0.1, 0.5 and 1.0 as doubles
PhysDts == {physics_step, <<1638, 6710886, 6710912>>, HalfSecond, Seconds(1)}

ProjectileTypes == {"arrow", "grenade", "energy_bolt"}

Owners == {"p1", "player", None}

\* 3 world units and 10 world units
BlastRadii == {1800, 6000}

InitPhysics ==
    /\ units = PhysUnits
    /\ squads = <<>>
    /\ error = None
    /\ call = NoCall
    /\ ncalls = 0
    /\ EngineInit

PEnabled == error = None /\ pc = "idle" /\ ncalls < MaxPhysCalls

FireProjectile ==
    /\ PEnabled
    /\ \E t \in ProjectileTypes, owner \in Owners, homing \in BOOLEAN :
          /\ projectiles' = Append(projectiles,
                fire_projectile(units, <<0, 0, 0>>,
                                IF homing THEN <<>> ELSE <<6000, 0, 0>>,
                                IF homing THEN "e1" ELSE None, t, owner, 10))
          /\ call' = [Call("fire_projectile", None) EXCEPT !.attacker = owner, !.flag = homing]
    /\ ncalls' = ncalls + 1
    /\ UNCHANGED <<units, squads, error, explosions, debris, accumulated_time, pc, steps, elapsed,
                 campaign>>

CreateProjectile ==
    /\ PEnabled
    /\ \E t \in {"energy", "grenade"}, d \in {<<1, 0, 0>>, <<10, 0, -1>>, <<1, 0, -1>>} :
          /\ projectiles' = Append(projectiles,
                create_projectile(units, <<0, 0, 600>>, d, "player", 150, t))
          /\ call' = [Call("create_projectile", None) EXCEPT !.attacker = "player"]
    /\ ncalls' = ncalls + 1
    /\ UNCHANGED <<units, squads, error, explosions, debris, accumulated_time, pc, steps, elapsed,
                 campaign>>

\* create_explosion(position, radius, damage, owner) centred on e1
CreateExplosion ==
    /\ PEnabled
    /\ \E radius \in BlastRadii, owner \in Owners :
          /\ explosions' = Append(explosions,
                Explosion(units, <<3000, 0, 0>>, radius, 30, owner))
          /\ call' = [Call("create_explosion", None) EXCEPT !.attacker = owner,
                          !.amount = radius]
    /\ ncalls' = ncalls + 1
    /\ UNCHANGED <<units, squads, error, projectiles, debris, accumulated_time, pc, steps,
                 elapsed, campaign>>

\* PhysicsEngine.update(dt) up to its while loop
EngineUpdate ==
    /\ PEnabled
    /\ \E dt \in PhysDts :
          /\ accumulated_time' = FAdd(accumulated_time, dt)
          /\ elapsed' = ExactAdd(elapsed, dt)
          /\ call' = [Call("update", None) EXCEPT !.pos = <<dt[1], dt[2]>>, !.amount = dt[3]]
    /\ pc' = IF FGeq(accumulated_time', physics_step) THEN "stepping" ELSE "idle"
    /\ ncalls' = ncalls + 1
    /\ UNCHANGED <<units, squads, error, projectiles, explosions, debris, steps, campaign>>

\* the loop variables after one pass; an exception leaves the loop at once
Stepped(r) ==
    /\ units' = r.units
    /\ projectiles' = r.projectiles
    /\ explosions' = r.explosions
    /\ debris' = r.debris
    /\ error' = r.error
    /\ IF r.error = None
       THEN /\ accumulated_time' = FSub(accumulated_time, physics_step)
            /\ steps' = steps + 1
            /\ pc' = IF FGeq(accumulated_time', physics_step)
                     THEN "stepping" ELSE "idle"
       ELSE UNCHANGED <<accumulated_time, steps, pc>>

\* one pass of the while loop of PhysicsEngine.update
FixedStep ==
    /\ error = None
    /\ pc = "stepping"
    /\ \E dodge \in {FALSE}, dir \in {<<10, 0>>}, draw \in DebrisDraws :
          Stepped(fixed_step(units, projectiles, explosions, debris, draw, dodge, dir))
    /\ UNCHANGED <<squads, call, ncalls, elapsed, campaign>>

NextPhysics ==
    \/ FireProjectile
    \/ CreateProjectile
    \/ CreateExplosion
    \/ EngineUpdate
    \/ FixedStep

SpecPhysics == InitPhysics /\ [][NextPhysics]_vars

(***************************************************************************)
(* The long run: projectiles fired away from every unit and an engine      *)
(* updated for seconds at a time, until lifetimes run out                  *)
(***************************************************************************)
MaxLifeCalls == 4

LifeDts == {Seconds(1), Seconds(5)}

InitLife ==
    /\ units = PhysUnits
    /\ squads = <<>>
    /\ error = None
    /\ call = NoCall
    /\ ncalls = 0
    /\ EngineInit

LEnabled == error = None /\ pc = "idle" /\ ncalls < MaxLifeCalls

\* PhysicsEngine.fire_projectile from the origin at a point behind the shooter
FireAway ==
    /\ LEnabled
    /\ \E t \in {"energy_bolt", "grenade"}, owner \in {"p1", "player"} :
          /\ projectiles' = Append(projectiles,
                fire_projectile(units, <<0, 0, 0>>, <<-6000, 0, 0>>, None, t, owner, 10))
          /\ call' = [Call("fire_projectile", None) EXCEPT !.attacker = owner]
    /\ ncalls' = ncalls + 1
    /\ UNCHANGED <<units, squads, error, explosions, debris, accumulated_time, pc, steps, elapsed,
                 campaign>>

\* PhysicsEngine.update(dt) up to its while loop, dt being whole seconds
LongUpdate ==
    /\ LEnabled
    /\ \E dt \in LifeDts :
          /\ accumulated_time' = FAdd(accumulated_time, dt)
          /\ elapsed' = ExactAdd(elapsed, dt)
          /\ call' = [Call("update", None) EXCEPT !.pos = <<dt[1], dt[2]>>, !.amount = dt[3]]
    /\ pc' = IF FGeq(accumulated_time', physics_step) THEN "stepping" ELSE "idle"
    /\ ncalls' = ncalls + 1
    /\ UNCHANGED <<units, squads, error, projectiles, explosions, debris, steps, campaign>>

NextLife ==
    \/ FireAway
    \/ LongUpdate
    \/ FixedStep

SpecLife == InitLife /\ [][NextLife]_vars

(***************************************************************************)
(* The firing range: one shooter at the origin and one stationary enemy on *)
(* the x axis, shot at in a straight line through its centre               *)
(***************************************************************************)
\* distance of the enemy from the muzzle, in tenths of a world unit
ShotDistances == {5, 12, 50, 62}

EngineTypes == {"arrow", "grenade", "portal_arrow", "energy_bolt"}

ShotWorld(d) ==
    [ p1 |-> Unit("shooter", <<0, 0>>, "player"),
      e1 |-> Unit("enemy_unit", <<d, 0>>, "enemy") ]

InitShot ==
    /\ \E d \in ShotDistances : units = ShotWorld(d)
    /\ squads = <<>>
    /\ error = None
    /\ call = NoCall
    /\ ncalls = 0
    /\ EngineInit

\* PhysicsEngine.fire_projectile at the centre of the enemy
ShotFired ==
    /\ PEnabled
    /\ \E t \in EngineTypes :
          /\ projectiles' = Append(projectiles,
                fire_projectile(units, <<0, 0, 0>>, PhysPos(units["e1"]) \o <<0>>,
                                None, t, "p1", 10))
          /\ call' = [Call("fire_projectile", None) EXCEPT !.attacker = "p1"]
    /\ ncalls' = ncalls + 1
    /\ UNCHANGED <<units, squads, error, explosions, debris, accumulated_time, pc, steps, elapsed,
                 campaign>>

\* a Projectile of speed 20 built directly and handed to the engine's list
ShotLaunched ==
    /\ PEnabled
    /\ projectiles' = Append(projectiles,
          Projectile(units, <<0, 0, 0>>, PhysPos(units["e1"]) \o <<0>>, None,
                     20, 10, "p1", Seconds(5), "arrow"))
    /\ call' = [Call("Projectile", None) EXCEPT !.attacker = "p1"]
    /\ ncalls' = ncalls + 1
    /\ UNCHANGED <<units, squads, error, explosions, debris, accumulated_time, pc, steps, elapsed,
                 campaign>>

NextShot ==
    \/ ShotFired
    \/ ShotLaunched
    \/ EngineUpdate
    \/ FixedStep

SpecShot == InitShot /\ [][NextShot]_vars

(***************************************************************************)
(* The blast world: explosions at the origin whose _apply_damage is called *)
(* directly, around an owner, an enemy at a chosen distance and a          *)
(* Dimensioneer 8 world units off                                          *)
(***************************************************************************)
MaxBlastCalls == 3

\* distance of the enemy from the centre, in tenths of a world unit
BlastDistances == {20, 50, 100, 120}

BlastWorld(d) ==
    [ p1 |-> Unit("shooter", <<0, 0>>, "player"),
      e1 |-> Unit("enemy_unit", <<d, 0>>, "enemy"),
      e2 |-> Dimensioneer(<<0, 80>>, "enemy") ]

InitBlast ==
    /\ \E d \in BlastDistances : units = BlastWorld(d)
    /\ squads = <<>>
    /\ error = None
    /\ call = NoCall
    /\ ncalls = 0
    /\ EngineInit

BEnabled == error = None /\ ncalls < MaxBlastCalls

\* Explosion(position, radius, damage, owner, damage_falloff = ...)
Detonate ==
    /\ BEnabled
    /\ \E radius \in BlastRadii, owner \in {"p1", None}, falloff \in BOOLEAN :
          /\ explosions' = Append(explosions,
                [Explosion(units, <<0, 0, 0>>, radius, 30, owner)
                    EXCEPT !.damage_falloff = falloff])
          /\ call' = [Call("Explosion", None) EXCEPT !.attacker = owner,
                          !.amount = radius, !.flag = falloff]
    /\ ncalls' = ncalls + 1
    /\ UNCHANGED <<units, squads, error, projectiles, debris, accumulated_time, pc, steps,
                 elapsed, campaign>>

\* the explosion and the units after explosion._apply_damage(game_state)
Blasted(i, r) ==
    /\ units' = r.units
    /\ explosions' = [explosions EXCEPT ![i] = r.ex]
    /\ error' = r.error

\* explosion._apply_damage(game_state) on the i-th explosion
ApplyDamage ==
    /\ BEnabled
    /\ \E i \in DOMAIN explosions :
          /\ Blasted(i, _apply_damage(units, explosions[i], FALSE, <<10, 0>>))
          /\ call' = [Call("_apply_damage", None) EXCEPT !.amount = i]
    /\ ncalls' = ncalls + 1
    /\ UNCHANGED <<squads, projectiles, debris, accumulated_time, pc, steps, elapsed,
                 campaign>>

NextBlast ==
    \/ Detonate
    \/ ApplyDamage

SpecBlast == InitBlast /\ [][NextBlast]_vars

(***************************************************************************)
(* The factory world: units and squads made by UnitFactory from type       *)
(* strings, known and unknown                                              *)
(***************************************************************************)
MaxFactoryCalls == 2

MaxUnitCount == 2

KnownTypes == {"dimensioneer", "portal_archer", "tech_grenadier", "gromflomite"}

UnitTypeStrings == KnownTypes \cup {"pickle_rick", "Dimensioneer"}

\* random.uniform(-5, 5) twice and np.random.random() once, per unit
Draws == { [offset |-> <<-50, 20>>, roll |-> 0], [offset |-> <<30, 0>>, roll |-> 250] }

FactoryPositions == {<<0, 0>>, <<300, 400>>}

\* dictionaries of one or two type strings with their counts, in insertion order
Compositions ==
    { <<<<t, n>>>> : t \in UnitTypeStrings, n \in 1..MaxUnitCount }
    \cup { <<<<t, n>>, <<w, m>>>> : t \in UnitTypeStrings, w \in {"portal_archer", "pickle_rick"},
                                     n \in 1..MaxUnitCount, m \in {1} }

Unambiguous(composition) ==
    \A i, j \in DOMAIN composition : composition[i][1] = composition[j][1] => i = j

InitFactory ==
    /\ units = <<>>
    /\ squads = <<>>
    /\ error = None
    /\ call = NoCall
    /\ ncalls = 0
    /\ EngineInit

FacEnabled == error = None /\ ncalls < MaxFactoryCalls

\* unit = UnitFactory.create_unit(unit_type, position, faction); the caller
\* keeps the unit returned
CreateUnit ==
    /\ FacEnabled
    /\ \E t \in UnitTypeStrings, position \in FactoryPositions, faction \in Factions :
          /\ units' = IF create_unit(t, position, faction) = <<>> THEN units
                      ELSE units @@ (new_unit(units) :> create_unit(t, position, faction)[1])
          /\ call' = [Call("create_unit", None) EXCEPT !.args = <<t>>, !.pos = position,
                          !.attacker = IF create_unit(t, position, faction) = <<>>
                                       THEN None ELSE new_unit(units)]
    /\ ncalls' = ncalls + 1
    /\ UNCHANGED <<squads, error>>
    /\ UNCHANGED <<engine, campaign>>

CreateSquad ==
    /\ FacEnabled
    /\ \E t \in UnitTypeStrings, position \in FactoryPositions, faction \in Factions,
          unit_count \in 0..MaxUnitCount :
          \E draws \in [1..unit_count -> Draws] :
              SDone(create_squad(units, squads, new_squad(squads), t, position,
                                 faction, draws),
                    [Call("create_squad", new_squad(squads))
                        EXCEPT !.args = <<t>>, !.amount = unit_count])

CreateMixedSquad ==
    /\ FacEnabled
    /\ \E composition \in Compositions, faction \in Factions :
          /\ Unambiguous(composition)
          /\ \E draws \in [1..Len(roster(composition)) -> Draws] :
                SDone(create_mixed_squad(units, squads, new_squad(squads), <<0, 0>>,
                                         composition, faction, draws),
                      [Call("create_mixed_squad", new_squad(squads))
                          EXCEPT !.args = composition])

NextFactory ==
    \/ CreateUnit
    \/ CreateSquad
    \/ CreateMixedSquad

SpecFactory == InitFactory /\ [][NextFactory]_vars

(***************************************************************************)
(* The mission world: a loaded mission is set up once in a fresh           *)
(* GameState, enemies are struck down from outside, and the game loop      *)
(* keeps calling GameState.update and Mission.update while the clock is    *)
(* below MaxGameTime.                                                      *)
(***************************************************************************)
MaxMissionCalls == 3

MaxGameTime == 30

MissionDts == {10}

Vanguard ==
    [type |-> "gromflomite", position |-> <<300, 400>>, size |-> 1, group |-> "vanguard"]

Reserve ==
    [type |-> "gromflomite", position |-> <<-300, 400>>, size |-> 1, group |-> None]

Archers == [type |-> "archer", position |-> <<0, 0>>, size |-> 1]

DefeatAll == [id |-> "defeat_all", type |-> "defeat_all", target_group |-> None]

DefeatVanguard == [id |-> "defeat_vanguard", type |-> "defeat_all", target_group |-> "vanguard"]

SurviveTime == [id |-> "survive", type |-> "survive_time", time |-> 20]

ReachPosition ==
    [id |-> "reach", type |-> "reach_position", position |-> <<0, 0>>, radius |-> 100]

\* the mission files: a second wave on the defeat of the first, a second
\* wave on the clock or on an objective, and a mission without enemies
MissionFiles ==
    { [time_limit |-> 0, player_squads |-> <<Archers>>,
       objectives |-> <<DefeatAll, DefeatVanguard>>,
       enemy_waves |-> << [trigger |-> "start", squads |-> <<Vanguard>>],
                          [trigger |-> "enemies_defeated", squads |-> <<Reserve>>] >>],
      [time_limit |-> 30, player_squads |-> <<Archers>>,
       objectives |-> <<DefeatAll, SurviveTime>>,
       enemy_waves |-> << [trigger |-> "start", squads |-> <<Vanguard>>],
                          [trigger |-> "time", trigger_time |-> 20, squads |-> <<Reserve>>] >>],
      [time_limit |-> 0, player_squads |-> <<Archers>>,
       objectives |-> <<DefeatVanguard, DefeatAll>>,
       enemy_waves |-> << [trigger |-> "start", squads |-> <<Vanguard>>],
                          [trigger |-> "objective_complete",
                           trigger_objective |-> "defeat_vanguard", squads |-> <<Reserve>>] >>],
      [time_limit |-> 0, player_squads |-> <<>>,
       objectives |-> <<DefeatAll, ReachPosition>>,
       enemy_waves |-> <<>>] }

\* what the enemy AI draws for one squad in one frame
AiRolls ==
    { [kind |-> "none", offset |-> <<0, 0>>, pick |-> 1],
      [kind |-> "move", offset |-> <<100, -50>>, pick |-> 1],
      [kind |-> "attack", offset |-> <<-100, 0>>, pick |-> 1] }

InitMission ==
    /\ units = <<>>
    /\ squads = <<>>
    /\ error = None
    /\ call = NoCall
    /\ ncalls = 0
    /\ projectiles = <<>>
    /\ explosions = <<>>
    /\ debris = <<>>
    /\ accumulated_time = FZero
    /\ pc = "idle"
    /\ steps = 0
    /\ elapsed = FZero
    /\ game = GameState
    /\ mission \in {Mission(data) : data \in MissionFiles}

MEnabled == error = None /\ ncalls < MaxMissionCalls

set_up == call.op # "init"

MDone(r, c) ==
    /\ units' = r.units
    /\ squads' = r.squads
    /\ game' = r.game
    /\ mission' = r.mission
    /\ error' = r.error
    /\ call' = c
    /\ UNCHANGED engine

\* mission.setup_game_state(game_state), once
SetupGameState ==
    /\ MEnabled
    /\ ~set_up
    /\ \E draw \in Draws :
          MDone(setup_game_state(units, squads, game, mission, <<draw>>),
                Call("setup_game_state", None))
    /\ ncalls' = ncalls + 1

\* a living enemy is struck down
EnemyStruck ==
    /\ MEnabled
    /\ set_up
    /\ \E v \in DOMAIN units :
          /\ units[v].faction = "enemy"
          /\ is_alive(units[v])
          /\ MDone(MResult(take_damage(units, v, 1000, None, 1, FALSE, <<10, 0>>).units,
                           squads, game, mission,
                           take_damage(units, v, 1000, None, 1, FALSE, <<10, 0>>).error),
                   [Call("take_damage", v) EXCEPT !.amount = 1000, !.nargs = 1])
    /\ ncalls' = ncalls + 1

\* game_state.update(dt) of the game loop
GameUpdate ==
    /\ error = None
    /\ set_up
    /\ game.game_time < MaxGameTime
    /\ \E dt \in MissionDts, ai \in [1..Len(game.enemy_squads) -> AiRolls] :
          /\ units' = GameState_update(units, squads, game, dt, ai, FALSE, <<10, 0>>).units
          /\ squads' = GameState_update(units, squads, game, dt, ai, FALSE, <<10, 0>>).squads
          /\ game' = GameState_update(units, squads, game, dt, ai, FALSE, <<10, 0>>).game
          /\ error' = GameState_update(units, squads, game, dt, ai, FALSE, <<10, 0>>).error
          /\ call' = [Call("GameState.update", None) EXCEPT !.amount = dt]
    /\ UNCHANGED <<engine, ncalls, mission>>

\* mission.update(game_state, dt) of the game loop
MissionUpdate ==
    /\ error = None
    /\ set_up
    /\ \E draw \in Draws :
          MDone(Mission_update(units, squads, game, mission, <<draw>>),
                Call("Mission.update", None))
    /\ UNCHANGED ncalls

NextMission ==
    \/ SetupGameState
    \/ EnemyStruck
    \/ GameUpdate
    \/ MissionUpdate

SpecMission == InitMission /\ [][NextMission]_vars

(***************************************************************************)
(* Properties of the unit world                                            *)
(***************************************************************************)
\* the step just taken was the call op on unit u
Called(op, u) == call'.op = op /\ call'.u = u /\ ncalls' = ncalls + 1

\* C2: in every reachable state of a unit, state = "dead" holds exactly
\* when health = 0.
C2_DeadIffHealthZero ==
    \A u \in DOMAIN units : (units[u].state = "dead") <=> (units[u].health = 0)

\* C3: after every take_damage and heal call with non-negative amounts the
\* health of a unit lies in 0..max_health.
C3_HealthWithinBounds ==
    \A u \in DOMAIN units :
        units[u].health >= 0 /\ units[u].health <= units[u].max_health

\* C4: the dead state is terminal: no call changes the state of a unit
\* that is dead.
C4_DeadIsTerminal ==
    [][\A u \in DOMAIN units :
          units[u].state = "dead" => units'[u].state = "dead"]_vars

\* C5: take_damage(amount, attacker) with an attacker that is a faction
\* string does not fail: the health decreases by amount (clamped at 0) and
\* last_attacker is that string.
C5_StringAttackerAccepted ==
    [][\A v \in DOMAIN units :
          (Called("take_damage", v) /\ call'.nargs = 2 /\ call'.attacker \in Factions)
          => /\ error' = None
             /\ units'[v].health = Max(0, units[v].health - call'.amount)
             /\ units'[v].last_attacker = call'.attacker]_vars

\* C6: take_damage(amount, attacker) on a Dimensioneer never raises: the
\* hit is dodged in full or the damage is applied.
C6_DimensioneerAcceptsAttacker ==
    [][\A v \in DOMAIN units :
          (Called("take_damage", v) /\ call'.nargs = 2
             /\ call'.attacker \in DOMAIN units /\ units[v].type = "dimensioneer")
          => /\ error' = None
             /\ \/ units'[v] = units[v]
                \/ units'[v].health = Max(0, units[v].health - call'.amount)]_vars

\* C8: take_damage on a unit that is already dead is a no-op: health stays
\* 0, state stays dead, and knockback_velocity, knockback_timer, path and
\* last_attacker are unchanged.
C8_DamageToDeadIsNoOp ==
    [][\A v \in DOMAIN units :
          (Called("take_damage", v) /\ units[v].state = "dead" /\ units[v].health = 0)
          => /\ units'[v].health = 0
             /\ units'[v].state = "dead"
             /\ units'[v].knockback_velocity = units[v].knockback_velocity
             /\ units'[v].knockback_timer = units[v].knockback_timer
             /\ units'[v].path = units[v].path
             /\ units'[v].last_attacker = units[v].last_attacker]_vars

\* the knockback the claim prescribes for victim v hit by attacker a
ExpectedKnockback(a, v) ==
    LET dx == v.position[1] - a.position[1]
        dy == v.position[2] - a.position[2]
        len == Sqrt(dx * dx + dy * dy)
        excess == a.knockback_power - v.knockback_resistance
        magnitude == (a.attack_range * 12 * (IF excess > 0 THEN excess ELSE 0)) \div 100
    IN  <<TDiv(dx * magnitude, len), TDiv(dy * magnitude, len)>>

MeleeAttacker(a) == ~a.is_ranged /\ a.attack_range <= 20

C14_MoveClearsTarget ==
    [][\A u \in DOMAIN units :
          (Called("move_to", u) \/ Called("set_destination", u))
          => /\ units'[u].target = None
             /\ units'[u].state = "moving"
             /\ units'[u].path = <<call'.pos>>]_vars

\* unit u is attacking a valid target that stands within its attack_range,
\* and no knockback holds its update back
in_reach(us, u) ==
    /\ us[u].knockback_timer <= 0
    /\ us[u].state = "attacking"
    /\ us[u].target # None
    /\ is_valid_target(us[u], us[us[u].target])
    /\ Distance(us[us[u].target].position, us[u].position) <= us[u].attack_range

\* C19: an attacking unit whose valid target is within attack_range adds dt
\* to its attack timer on every update and, each time the timer reaches
\* 1 / attack_speed, resolves one attack on the target and resets the timer
\* to 0; the update never raises an error, the first attack tick included.
C19_AttackTimerPacesAttacks ==
    [][\A u \in DOMAIN units :
          (Called("update", u) /\ in_reach(units, u)) =>
              /\ error' = None
              /\ IF units[u].attack_timer + call'.amount >= 100 \div units[u].attack_speed
                 THEN /\ units'[u].attack_timer = 0
                      /\ units'[units[u].target].last_attacker = u
                 ELSE /\ units'[u].attack_timer = units[u].attack_timer + call'.amount
                      /\ units'[units[u].target] = units[units[u].target]]_vars

\* unit u holds an attack order on a live enemy that stands out of its
\* attack_range
out_of_reach(us, u) ==
    /\ is_alive(us[u])
    /\ us[u].target # None
    /\ is_valid_target(us[u], us[us[u].target])
    /\ Distance(us[us[u].target].position, us[u].position) > us[u].attack_range

\* C20: for a unit ordered to attack a live enemy that is out of
\* attack_range, every update tick during which the target is still out of
\* range leaves the unit's path as the single waypoint at the position the
\* target has at that tick.
C20_ChaseFollowsTarget ==
    [][\A u \in DOMAIN units :
          (Called("update", u) /\ out_of_reach(units, u)) =>
              units'[u].path = <<units[units[u].target].position>>]_vars

\* the knockback timer of live unit u runs out during an update of length dt
recovers(us, u, dt) ==
    /\ is_alive(us[u])
    /\ us[u].knockback_timer > 0
    /\ us[u].knockback_timer - dt <= 0

\* C21: when a live unit's knockback-recovery timer expires during update,
\* its knockback velocity becomes zero and, if it still holds a target, its
\* state becomes "attacking" whatever its state was when it was hit; it is
\* never left in state "moving" with an empty path.
C21_RecoveryResumesAttack ==
    [][\A u \in DOMAIN units :
          (Called("update", u) /\ recovers(units, u, call'.amount)) =>
              /\ units'[u].knockback_velocity = ZeroVec
              /\ units'[u].knockback_timer = 0
              /\ units'[u].target # None => units'[u].state = "attacking"
              /\ ~(units'[u].state = "moving" /\ units'[u].path = <<>>)]_vars

\* the unit as Unit.update leaves it when it ran its knockback branch only:
\* moved by knockback_velocity * dt, the timer run down by dt and, on expiry,
\* timer and velocity reset
knocked_along(self, dt) ==
    [self EXCEPT
        !.position = <<@[1] + TDiv(self.knockback_velocity[1] * dt, 10),
                       @[2] + TDiv(self.knockback_velocity[2] * dt, 10)>>,
        !.knockback_timer = IF @ - dt <= 0 THEN 0 ELSE @ - dt,
        !.knockback_velocity = IF self.knockback_timer - dt <= 0 THEN ZeroVec ELSE @]

\* C22 as claimed: while a unit's knockback timer is greater than 0,
\* Unit.update(dt) changes only the position (by knockback_velocity * dt)
\* and the knockback timer and velocity, of that unit and of no other.
C22_KnockbackSkipsAllElse ==
    [][\A u \in DOMAIN units :
          (Called("update", u) /\ units[u].knockback_timer > 0) =>
              /\ error' = None
              /\ units' = [units EXCEPT ![u] = knocked_along(units[u], call'.amount)]]_vars

\* C22 amended: while a unit's knockback timer is greater than 0,
\* Unit.update(dt) changes only the position (by knockback_velocity * dt),
\* the knockback timer and velocity and, on the tick the timer expires, the
\* state of an idle unit that holds a target, which becomes "attacking";
\* path, target, health and attack timer are unchanged and no other unit is
\* touched.
C22_KnockbackSkipsAllButResume ==
    [][\A u \in DOMAIN units :
          (Called("update", u) /\ units[u].knockback_timer > 0) =>
              /\ error' = None
              /\ units' = [units EXCEPT ![u] =
                    [knocked_along(units[u], call'.amount) EXCEPT
                        !.state = IF /\ units[u].knockback_timer - call'.amount <= 0
                                     /\ units[u].state = "idle"
                                     /\ units[u].target # None
                                  THEN "attacking" ELSE @]]]_vars

\* an update has run on a unit that is still being knocked back
C22_Witness ==
    /\ call.op = "update"
    /\ units[call.u].knockback_timer > 0
    /\ units[call.u].knockback_velocity # ZeroVec
    /\ units[call.u].target # None

(***************************************************************************)
(* Properties of the squad world                                           *)
(***************************************************************************)
\* C10: after Squad.attack_unit(u) or Squad.attack_target(pos) every member
\* of the squad is in state "attacking" against the same target, which for
\* attack_unit is u.
C10_SquadAttackFlagsMembers ==
    (call.op \in {"attack_unit", "attack_target"} /\ error = None)
    => \A m \in Members(squads[call.u]) :
          /\ units[m].state = "attacking"
          /\ \A k \in Members(squads[call.u]) : units[k].target = units[m].target
          /\ call.op = "attack_unit" => units[m].target = call.attacker


\* the number of times unit u is listed by squad sq
Listings(sq, u) == Cardinality({i \in 1..Len(sq.units) : sq.units[i] = u})

\* C11: after any sequence of add_unit and remove_unit calls every unit is
\* listed by at most one squad and at most once there, and unit.squad is the
\* squad that lists it (None when no squad lists it).
C11_UnitInAtMostOneSquad ==
    \A u \in DOMAIN units :
        /\ \A s, t \in DOMAIN squads :
              (Listings(squads[s], u) > 0 /\ Listings(squads[t], u) > 0) => s = t
        /\ \A s \in DOMAIN squads :
              /\ Listings(squads[s], u) <= 1
              /\ Listings(squads[s], u) = 1 <=> units[u].squad = s
        /\ units[u].squad = None <=> \A s \in DOMAIN squads : Listings(squads[s], u) = 0

\* C12: Squad.update leaves in the unit list exactly the members that were
\* alive when it was called, in their order, and sets the squad position to
\* the mean x and y those survivors had then; with no survivor the position
\* stays as it was.
C12_UpdatePrunesAndCentres ==
    [][\A s \in DOMAIN squads :
          Called("squad_update", s)
          => LET alive(u) == is_alive(units[u])
                 live == SelectSeq(squads[s].units, alive)
             IN  /\ squads'[s].units = live
                 /\ squads'[s].position =
                       IF live = <<>> THEN squads[s].position
                       ELSE <<TDiv(SumCoord(units, live, 1), Len(live)),
                              TDiv(SumCoord(units, live, 2), Len(live))>>]_vars

\* an update has pruned the dead u1 and moved the centroid onto u2
C12_Witness ==
    /\ call.op = "squad_update"
    /\ call.u = "s1"
    /\ ~is_alive(units["u1"])
    /\ squads["s1"].units = <<"u2">>
    /\ squads["s1"].position = <<200, 0>>

\* C13: in a squad of N > 1 live units the formation positions of the
\* members are pairwise distinct, in the line, wedge, column and circle
\* formations, for every N and every formation_width >= 1.
C13_FormationPositionsDistinct ==
    \A s \in DOMAIN squads :
        \A u, v \in Members(squads[s]) :
            (u # v /\ is_alive(units[u]) /\ is_alive(units[v]))
            => units[u].formation_position # units[v].formation_position

\* a squad of five in a line of width 2 has been re-formed into a circle
C13_Witness ==
    /\ call.op = "set_formation"
    /\ squads["s1"].formation = "CIRCLE"
    /\ squads["s1"].formation_width = 2
    /\ Len(squads["s1"].units) = 5
    /\ units["u5"].formation_position # <<>>

\* the target the formation of squad sq was laid out around
formation_target(sq) ==
    IF sq.target_position # <<>> THEN sq.target_position ELSE sq.position

\* offset of the formation position of member number i (from 0) from the
\* travel axis, measured along the perpendicular (-direction.y, direction.x)
lateral(us, sq, i) ==
    ((us[sq.units[i + 1]].formation_position[1] - formation_target(sq)[1])
         * (-travel_direction(sq, formation_target(sq))[2])
     + (us[sq.units[i + 1]].formation_position[2] - formation_target(sq)[2])
         * travel_direction(sq, formation_target(sq))[1])
    \div travel_direction(sq, formation_target(sq))[3]

\* the member numbers of row r when the rows hold up to formation_width units
row_members(sq, r) ==
    { i \in 0..(Len(sq.units) - 1) : i \div Min(Len(sq.units), sq.formation_width) = r }

RECURSIVE lateral_sum(_, _, _)
lateral_sum(us, sq, members) ==
    IF members = {} THEN 0
    ELSE LET i == CHOOSE k \in members : TRUE
         IN  lateral(us, sq, i) + lateral_sum(us, sq, members \ {i})

\* C24: in LINE formation every row, a final partial row included, is
\* centred on the travel axis (the lateral offsets of its units sum to zero)
\* and neighbouring units of a row are formation_spacing apart.
C24_LineRowsCentred ==
    \A s \in DOMAIN squads :
        squads[s].formation = "LINE" =>
            \A r \in 0..(Len(squads[s].units) - 1) :
                /\ lateral_sum(units, squads[s], row_members(squads[s], r)) = 0
                /\ \A i \in row_members(squads[s], r) :
                      (i + 1) \in row_members(squads[s], r) =>
                          lateral(units, squads[s], i + 1) - lateral(units, squads[s], i)
                              = squads[s].formation_spacing

\* C15: Squad.move_to(target) records target as target_position and as the
\* only waypoint, gives every member a formation position and leaves every
\* member in state "moving" with path = [its own formation position].
C15_SquadMoveOrdersMembers ==
    [][\A s \in DOMAIN squads :
          Called("squad_move_to", s)
          => /\ squads'[s].target_position = call'.pos
             /\ squads'[s].waypoints = <<call'.pos>>
             /\ squads'[s].units = squads[s].units
             /\ \A m \in Members(squads[s]) :
                   /\ units'[m].formation_position # <<>>
                   /\ units'[m].state = "moving"
                   /\ units'[m].path = <<units'[m].formation_position>>]_vars

\* the squad of two has been sent to (30, 40) and both members are under way
C15_Witness ==
    /\ call.op = "squad_move_to"
    /\ call.u = "s1"
    /\ squads["s1"].waypoints = <<<<300, 400>>>>
    /\ units["u1"].state = "moving"
    /\ units["u2"].state = "moving"
    /\ units["u1"].path = <<units["u1"].formation_position>>
    /\ units["u1"].formation_position # units["u2"].formation_position

marching(self) ==
    /\ is_alive(self)
    /\ self.state = "moving"
    /\ Len(self.path) = 1
    /\ self.knockback_timer <= 0
    /\ self.speed > 0

\* the coordinate c1 lies between c0 and the coordinate w of the waypoint
between(c0, c1, w) == (c0 <= c1 /\ c1 <= w) \/ (w <= c1 /\ c1 <= c0)

\* after is the unit one tick of dt after self: arrived and idle, or closer
\* to its waypoint by min(speed*dt, distance) on the straight line to it
marched(self, after, dt) ==
    LET wp == self.path[1]
        distance == Distance(wp, self.position)
        move_distance == Min((self.speed * dt) \div 10, distance)
    IN  IF distance < 5
        THEN after = [self EXCEPT !.path = <<>>, !.state = "idle"]
        ELSE /\ after = [self EXCEPT !.position = after.position]
             /\ between(self.position[1], after.position[1], wp[1])
             /\ between(self.position[2], after.position[2], wp[2])
             /\ Abs(Distance(after.position, self.position) - move_distance) <= 3
             /\ Abs(Distance(wp, after.position) - (distance - move_distance)) <= 3
             /\ Distance(wp, after.position) < distance

\* a tick of update(dt) on u1, dt being call'.amount
ticked == call'.op = "update" /\ ncalls' = ncalls

\* C28: a live unit in state 'moving' with a single waypoint, positive speed
\* and no active knockback reaches state 'idle' with an empty path after
\* finitely many update ticks with dt > 0, and never overshoots: each tick
\* it advances min(speed*dt, remaining distance) straight toward the
\* waypoint (to within the rounding of the coordinates), and the waypoint is popped
\* once the distance is below 0.5.
C28_MarchArrives ==
    /\ [][(ticked /\ marching(units["u1"])) =>
             /\ error' = None
             /\ units'["e1"] = units["e1"]
             /\ marched(units["u1"], units'["u1"], call'.amount)]_vars
    /\ \A n \in 0..MaxDrillCalls :
          (marching(units["u1"]) /\ ncalls = n)
             ~> (\/ units["u1"].state = "idle" /\ units["u1"].path = <<>>
                 \/ ncalls # n)

\* the unit stands idle on a waypoint it was sent to, its path used up
C28_Witness ==
    /\ call.op = "update"
    /\ units["u1"].state = "idle"
    /\ units["u1"].path = <<>>
    /\ units["u1"].target = None
    /\ units["u1"].position \in DrillWaypoints \ {<<3, 0>>}

\* C29: a live unit given set_target(enemy) and set_attack_mode(True)
\* against a stationary live enemy that starts outside attack_range
\* eventually deals damage to that enemy under repeated update ticks alone,
\* without any further command being issued.
C29_PursuitEndsInDamage ==
    \A n \in 0..MaxDrillCalls :
        (/\ ncalls = n
         /\ error = None
         /\ units["u1"].state = "attacking"
         /\ units["u1"].target = "e1"
         /\ is_alive(units["e1"])
         /\ out_of_reach(units, "u1"))
           ~> (units["e1"].health < units["e1"].max_health \/ ncalls # n)

(***************************************************************************)
(* Properties of the mission world (SpecMission)                           *)
(***************************************************************************)
enemy_units == {v \in DOMAIN units : units[v].faction = "enemy"}

\* the mission has spawned enemies and none of them is alive
all_enemies_dead ==
    /\ set_up
    /\ enemy_units # {}
    /\ \A v \in enemy_units : ~is_alive(units[v])

\* the wave after wave n waits for the defeat of the enemies
wave_pending(n) ==
    /\ mission.current_wave = n
    /\ n < Len(mission.enemy_waves) - 1
    /\ mission.enemy_waves[n + 2].trigger = "enemies_defeated"

has_objective(objective) ==
    \E i \in DOMAIN mission.objectives : mission.objectives[i] = objective

is_completed(m, id) ==
    \E i \in DOMAIN m.completed_objectives : m.completed_objectives[i] = id

\* GameState.update has run since the last enemy fell: Squad.update has
\* taken every dead unit off its squad's list
dead_removed ==
    \A i \in DOMAIN game.enemy_squads : squads[game.enemy_squads[i]].units = <<>>

\* C30: in a running mission, once every enemy unit is dead and a
\* GameState.update tick has taken the dead off their squads, a
\* Mission.update tick finds all enemies defeated: it spawns a next wave
\* whose trigger is 'enemies_defeated', and with no wave to spawn it adds an
\* ungrouped 'defeat_all' objective to completed_objectives.
C30_DefeatIsNoticed ==
    [][(/\ call'.op = "Mission.update"
        /\ error = None
        /\ all_enemies_dead
        /\ dead_removed)
          => /\ \A n \in 0..1 : wave_pending(n) => mission'.current_wave = n + 1
             /\ (has_objective(DefeatAll) /\ mission'.current_wave = mission.current_wave)
                   => is_completed(mission', "defeat_all")]_vars

(***************************************************************************)
(* Properties of the physics world (SpecPhysics)                           *)
(***************************************************************************)
\* the units Explosion._apply_damage looks at for an owner that is a unit or
\* None
affected(us, ex) ==
    IF ex.owner = None THEN DOMAIN us
    ELSE {u \in DOMAIN us : us[u].faction # us[ex.owner].faction}

in_blast(us, ex, u) ==
    in_radius(ex, PhysPos(us[u])[1] - ex.position[1], PhysPos(us[u])[2] - ex.position[2])

\* C1: an explosion that has run its full lifetime has handed its damage to
\* every live unit of an affected faction inside its radius exactly once:
\* not zero times and not more than once.
C1_ExplosionHitsOnce ==
    \A i \in DOMAIN explosions :
        LET ex == explosions[i]
        IN  (~ex.active /\ ex.owner \in DOMAIN units \cup {None}) =>
                \A u \in affected(units, ex) :
                    (is_alive(units[u]) /\ in_blast(units, ex, u)) => ex.applied[u] = 1

\* C7: after every update(dt) call the number of fixed steps executed so far
\* is floor(total elapsed time / physics_step) and 0 <= accumulated_time <
\* physics_step, so that the step count (and with it a projectile's position)
\* depends on the total elapsed time only.
C7_StepsAreFloorOfElapsed ==
    (pc = "idle" /\ error = None) =>
        /\ FGeq(elapsed, ExactTimes(steps, physics_step))
        /\ FLess(elapsed, ExactTimes(steps + 1, physics_step))
        /\ FGeq(accumulated_time, FZero)
        /\ FLess(accumulated_time, physics_step)

\* the projectiles in the engine's list
listed(projs) == { projs[i] : i \in DOMAIN projs }

\* C25: a projectile that is not marked penetrating applies damage to at
\* most one unit over its whole lifetime, and only to a unit that is alive
\* and of the faction opposing its owner's at the moment of the hit; after
\* the hit it is inactive, is never updated again, and is removed from the
\* engine's list on the next fixed step.
C25_OneHitThenGone ==
    [][/\ \A p \in listed(projectiles') :
             /\ Len(p.hits) <= 1
             /\ p.hits # <<>> => ~p.active
       /\ \A u \in DOMAIN units :
             units'[u].health < units[u].health =>
                 /\ is_alive(units[u])
                 /\ \E p \in listed(projectiles) :
                       /\ p.active
                       /\ owner_faction(units, p.owner) \in Factions
                       /\ owner_faction(units, p.owner) # units[u].faction
       /\ steps' = steps + 1 =>
             \A p \in listed(projectiles) : p.hits # <<>> => p \notin listed(projectiles')]_vars

\* C26: a gravity-affected projectile (grenade) is never below the ground
\* plane: in every reachable state its position z is >= 0, for every firing
\* direction including one with a downward z component.
C26_GrenadeNeverBelowGround ==
    \A p \in listed(projectiles) : has_gravity(p) => p.position[3] >= 0

\* the object is one that was active in the list and has aged by one step
aged_from(x, before) ==
    \E x0 \in listed(before) :
        /\ x0.active
        /\ x.lifetime = FAdd(x0.lifetime, physics_step)
        /\ x.max_lifetime = x0.max_lifetime

\* C27: a projectile or explosion is inactive no later than the step in
\* which its accumulated lifetime reaches its maximum lifetime, and an
\* inactive one is dropped from the engine's list on the following fixed
\* step: what a completed step leaves in a list was active before it and is
\* one step older, or is an explosion spawned in that step.  A debris piece
\* is dropped in the step its remaining lifetime reaches 0.  A step never
\* lengthens the projectile list, and the other lists only when a projectile
\* ends in an explosion.
C27_LifetimesRunOut ==
    [][/\ \A p \in listed(projectiles') : FGeq(p.lifetime, p.max_lifetime) => ~p.active
       /\ \A e \in listed(explosions') : FGeq(e.lifetime, e.max_lifetime) => ~e.active
       /\ steps' = steps + 1 =>
             /\ \A p \in listed(projectiles') : aged_from(p, projectiles)
             /\ \A e \in listed(explosions') :
                   \/ aged_from(e, explosions)
                   \/ e.lifetime = FAdd(FZero, physics_step) /\ projectiles # <<>>
             /\ \A d \in listed(debris') : FLess(FZero, d.lifetime)
             /\ Len(projectiles') <= Len(projectiles)
             /\ projectiles = <<>> =>
                   /\ Len(explosions') <= Len(explosions)
                   /\ Len(debris') <= Len(debris)
                   /\ \A d \in listed(debris') :
                         \E d0 \in listed(debris) :
                            d.lifetime = FSub(d0.lifetime, physics_step)]_vars

\* the grenade has exploded and is gone, its explosion has run out and is
\* gone, and some but not all of the debris has been dropped
C27_Witness ==
    /\ error = None
    /\ projectiles = <<>>
    /\ explosions = <<>>
    /\ debris # <<>>
    /\ Len(debris) < (explosion_radius * 5) \div 600


(***************************************************************************)
(* Properties of the firing range                                          *)
(***************************************************************************)
\* the projectile has flown on beyond the far side of the unit's collision
\* circle (radius 1)
flown_past(proj, unit) == proj.position[1] > PhysPos(unit)[1] + 600

\* C16: a non-homing projectile fired in a straight line through the centre
\* of a stationary live unit of the opposing faction hits it, at speed 20 and
\* at every speed the engine assigns, whatever the distance: no projectile is
\* ever found beyond the unit unless it was deactivated on the unit and the
\* unit's health went down by its damage.
C16_StraightShotHits ==
    \A i \in DOMAIN projectiles :
        flown_past(projectiles[i], units["e1"]) =>
            /\ ~projectiles[i].active
            /\ units["e1"].health <= units["e1"].max_health - projectiles[i].damage


(***************************************************************************)
(* Properties of the blast world                                           *)
(***************************************************************************)
\* distance of unit u from the centre of the explosion, in 1/600 world unit
blast_distance(us, ex, u) ==
    Norm(PhysPos(us[u])[1] - ex.position[1], PhysPos(us[u])[2] - ex.position[2], 0)

\* damage * (1 - d / radius) with falloff, the full damage without
falloff_damage(ex, d) ==
    IF ex.damage_falloff THEN (ex.damage * (ex.radius - d)) \div ex.radius ELSE ex.damage

\* C17: when an explosion applies its damage, each live affected unit at
\* distance d <= radius from the centre takes damage * (1 - d / radius) if
\* damage_falloff is set and the full damage otherwise, and units at distance
\* d > radius take nothing.
C17_BlastDamageFalloff ==
    [][\A i \in DOMAIN explosions :
          (Called("_apply_damage", None) /\ call'.amount = i) =>
              \A u \in affected(units, explosions[i]) :
                  (is_alive(units[u]) /\ u \notin explosions[i].damaged_units) =>
                      IF blast_distance(units, explosions[i], u) <= explosions[i].radius
                      THEN units'[u].health =
                              Max(0, units[u].health
                                     - falloff_damage(explosions[i],
                                                      blast_distance(units, explosions[i], u)))
                      ELSE units'[u].health = units[u].health]_vars


(***************************************************************************)
(* Properties of the factory world                                         *)
(***************************************************************************)
\* the units of the given type listed by squad q after the step
recruits(q, t) == { m \in Members(squads'[q]) : units'[m].type = t }

\* the units listed by squad q are new, listed once, and refer back to q
fresh_members(q) ==
    /\ \A i, j \in DOMAIN squads'[q].units :
          squads'[q].units[i] = squads'[q].units[j] => i = j
    /\ \A m \in Members(squads'[q]) :
          /\ m \notin DOMAIN units
          /\ units'[m].squad = q

\* C18: an unknown unit type string never propagates a failure: create_unit
\* returns no unit, and create_squad / create_mixed_squad with an unknown type
\* return a squad to which no unit of that type was added, while every known
\* type adds exactly the requested count of units whose squad back-reference
\* is the new squad.
C18_UnknownTypeIsSkipped ==
    [][/\ Called("create_unit", None) =>
             /\ error' = None
             /\ call'.args[1] \notin KnownTypes => (call'.attacker = None /\ units' = units)
             /\ call'.args[1] \in KnownTypes =>
                   /\ call'.attacker \in DOMAIN units' \ DOMAIN units
                   /\ units'[call'.attacker].type = call'.args[1]
       /\ \A q \in DOMAIN squads' :
             Called("create_squad", q) =>
                 /\ error' = None
                 /\ q \notin DOMAIN squads
                 /\ fresh_members(q)
                 /\ DOMAIN units' = DOMAIN units \cup Members(squads'[q])
                 /\ Cardinality(Members(squads'[q])) =
                       IF call'.args[1] \in KnownTypes THEN call'.amount ELSE 0
                 /\ recruits(q, call'.args[1]) = Members(squads'[q])
       /\ \A q \in DOMAIN squads' :
             Called("create_mixed_squad", q) =>
                 /\ error' = None
                 /\ q \notin DOMAIN squads
                 /\ fresh_members(q)
                 /\ DOMAIN units' = DOMAIN units \cup Members(squads'[q])
                 /\ \A k \in DOMAIN call'.args :
                       Cardinality(recruits(q, call'.args[k][1])) =
                           IF call'.args[k][1] \in KnownTypes THEN call'.args[k][2] ELSE 0]_vars

\* a mixed squad was ordered with an unknown type next to a known one and
\* holds the units of the known type only
C18_Witness ==
    /\ call.op = "create_mixed_squad"
    /\ error = None
    /\ \E k \in DOMAIN call.args : call.args[k][1] \notin KnownTypes /\ call.args[k][2] > 0
    /\ \E k \in DOMAIN call.args :
          /\ call.args[k][1] \in KnownTypes
          /\ Cardinality({m \in Members(squads[call.u]) : units[m].type = call.args[k][1]})
                = call.args[k][2]
    /\ \A m \in Members(squads[call.u]) : units[m].squad = call.u

====
